---- MODULE Spec2Model ----
(***************************************************************************)
(* A model of the jaxtools base-type streaming protocol:                   *)
(*   - DictWriter   (jaxtools/basetypes/dictreaderwriter.py)               *)
(*   - ChildReader  (jaxtools/basetypereaderwriterhelpers.py)              *)
(* Every handler is one action.  A call that raises is still a step: it    *)
(* records the exception in `raised` and leaves the object as the code     *)
(* leaves it.  `calls` is the history of the calls made on the writer and  *)
(* `yielded` the history of the elements the ChildReader returned.         *)
(***************************************************************************)
EXTENDS Integers, Sequences, FiniteSets, TLC

VARIABLES
    \* DictWriter fields (dictreaderwriter.py:27-32)
    _dict, _collectionStack, _list, _keyName, _closed,
    \* outcome of the last writer call, and the history of writer calls
    raised, calls,
    \* ChildReader fields (basetypereaderwriterhelpers.py:20-24)
    _parentReader, _first, _depth,
    \* the constructor's firstElem, whether the parent object has a method
    \* next(), the parent's cursor, the outcome of the last __next__ and the
    \* history of the elements __next__ returned
    firstElem, parentHasNext, parentPos, readerRaised, yielded,
    \* readWithCallbacks (basetypereaderwriterhelpers.py:100-125): the token
    \* stream of its reader, how many tokens the loop has taken, the callbacks
    \* it has called with their outcomes, and how the call ended
    reader, readerPos, dispatched, returned,
    \* the value handed to getBaseTypeId and isBaseType, and the outcomes of the
    \* calls made on it
    pyVal, ids, checks,
    \* the last call of checkBaseType on that value (the id asked and the
    \* outcome), and the last call of isBaseTypeList or isBaseTypeDict on it
    \* (the function, what it returned, how many members its loop examined)
    typeCheck, examined,
    \* the last call of a category predicate (isValueTypeId, ...): the
    \* function, its argument and its outcome
    idChecked,
    \* Tag: the arguments of the constructor call, the Tag it made (or the
    \* exception), the results of str(tag) and tag.dateString(), and the Tag
    \* constructed from str(tag)
    tagArgs, tag, tagStr, tagDateString, reparsed,
    \* PackableFactory.makePackable: where the call stands, what the reader,
    \* makeObject and unpack do when called, the calls made so far, and how
    \* the call ended
    pc, collaborators, factoryCalls, outcome,
    \* PropertySheet: the sheets constructed so far, each with its fields
    \* _parent, _immutable and _properties (commonobjects.py:87-91), and the
    \* last call made on one of them with its outcome
    sheets, sheetCall,
    \* two callers of one DictWriter: the name and the value write each has
    \* to make, and where each stands
    callers, callerPc

writerVars == <<_dict, _collectionStack, _list, _keyName, _closed, raised, calls>>
readerVars ==
    <<_parentReader, _first, _depth, firstElem, parentHasNext, parentPos, readerRaised, yielded>>
callbackVars == <<reader, readerPos, dispatched, returned>>
classifyVars == <<pyVal, ids, checks, typeCheck, examined>>
typeIdVars == <<idChecked>>
tagVars == <<tagArgs, tag, tagStr, tagDateString, reparsed>>
factoryVars == <<pc, collaborators, factoryCalls, outcome>>
sheetVars == <<sheets, sheetCall>>
sharedVars == <<callers, callerPc>>
\* the variables of the components modelled first, and of those modelled later
earlierVars == <<writerVars, readerVars, callbackVars, classifyVars>>
laterVars == <<typeIdVars, tagVars, factoryVars, sheetVars, sharedVars>>
vars == <<earlierVars, laterVars>>

---------------------------------------------------------------------------
(* Bounds of the model.                                                    *)

\* the longest history of writer calls explored
MaxCalls == 4
\* the most property sheets constructed
MaxSheets == 2
\* the longest parent token stream given to a ChildReader
MaxParent == 3
\* the longest token stream given to readWithCallbacks
MaxStream == 3
\* the most members of a list, tuple or dictionary handed to getBaseTypeId
MaxItems == 2
\* the most calls of getBaseTypeId, and of isBaseType, on one value
MaxRepeat == 2

---------------------------------------------------------------------------
(* Python values.  A value is a record with its type, text and number, so  *)
(* that values of different Python types compare unequal.                  *)

NONE == [t |-> "none", s |-> "", n |-> 0]
PyBool(b) == [t |-> "bool", s |-> "", n |-> IF b THEN 1 ELSE 0]
PyInt(i) == [t |-> "int", s |-> "", n |-> i]
PyStr(x) == [t |-> "str", s |-> x, n |-> 0]
PyList(items) == [t |-> "list", items |-> items]
PyDict(items) == [t |-> "dict", items |-> items]
PyTuple(items) == [t |-> "tuple", items |-> items]
\* the float i.5
PyFloat(i) == [t |-> "float", s |-> "", n |-> i]
\* an instance of a class: datetime.datetime, Tag, a Packable, or a class
\* that is none of these (cls "object")
PyObject(cls) == [t |-> cls, s |-> "", n |-> 0]

\* Python's truth value, as `if x:` tests it
Truthy(v) ==
    CASE v.t = "none" -> FALSE
      [] v.t = "bool" -> v.n = 1
      [] v.t = "int" -> v.n # 0
      [] v.t = "str" -> v.s # ""
      [] v.t = "list" -> Len(v.items) > 0
      [] v.t = "dict" -> Len(v.items) > 0

isBool(val) == val.t = "bool"
\* isInt written with isinstance(val, int), which a bool satisfies
isIntOfBool(val) == val.t \in {"int", "bool"}
isInt(val) == ~isBool(val) /\ val.t = "int"
isString(val) == val.t = "str"
isNone(val) == val = NONE
isFloat(val) == val.t = "float"
isDateTime(val) == val.t = "datetime"
isTuple(val) == val.t = "tuple"
isList(val) == val.t = "list"
isDict(val) == val.t = "dict"

\* the arguments the model passes to the value writes
Values == {PyBool(TRUE), PyInt(1), PyStr("a")}
\* the arguments the model passes to writePairStart
Names == {PyStr(""), PyStr("a"), PyStr("b")}
\* the packable header the model passes to writePackableStart
Header == PyStr("tag:bt.co,2019:state")

---------------------------------------------------------------------------
(* DictWriter                                                              *)

\* one entry of the call history
Call(op, arg, exc) == [op |-> op, arg |-> arg, exc |-> exc]

DictWriterInit ==
    /\ _dict = NONE
    /\ _collectionStack = <<>>
    /\ _list = NONE
    /\ _keyName = NONE
    /\ _closed = FALSE
    /\ raised = "none"
    /\ calls = <<>>

\* _writeValue with the two raises of its last branches exchanged: a write
\* outside any collection raises InvalidKeyError
_writeValueErrorsExchanged(value) ==
    IF _closed
    THEN [exc |-> "ValueError", list |-> _list, dict |-> _dict, keyName |-> _keyName]
    ELSE IF Truthy(_keyName) /\ Truthy(_list)
    THEN [exc |-> "none",
          list |-> PyList(Append(_list.items, <<_keyName, value>>)),
          dict |-> _dict, keyName |-> NONE]
    ELSE IF Truthy(_list)
    THEN [exc |-> "none",
          list |-> PyList(Append(_list.items, value)),
          dict |-> _dict, keyName |-> _keyName]
    ELSE IF Truthy(_keyName) /\ Truthy(_dict)
    THEN [exc |-> "AttributeError", list |-> _list, dict |-> _dict, keyName |-> _keyName]
    ELSE IF Truthy(_dict)
    THEN [exc |-> "NotInACollectionError", list |-> _list, dict |-> _dict, keyName |-> _keyName]
    ELSE [exc |-> "InvalidKeyError", list |-> _list, dict |-> _dict, keyName |-> _keyName]

\* The result of _writeValue(value): the exception it raises ("none" when it
\* returns) and the fields it leaves.
_writeValue(value) ==
    IF _closed
    THEN [exc |-> "ValueError", list |-> _list, dict |-> _dict, keyName |-> _keyName]
    ELSE IF Truthy(_keyName) /\ Truthy(_list)
    THEN [exc |-> "none",
          list |-> PyList(Append(_list.items, <<_keyName, value>>)),
          dict |-> _dict, keyName |-> NONE]
    ELSE IF Truthy(_list)
    THEN [exc |-> "none",
          list |-> PyList(Append(_list.items, value)),
          dict |-> _dict, keyName |-> _keyName]
    ELSE IF Truthy(_keyName) /\ Truthy(_dict)
    THEN \* a Python dict has no method add: the call raises before the key is cleared
         [exc |-> "AttributeError", list |-> _list, dict |-> _dict, keyName |-> _keyName]
    ELSE IF Truthy(_dict)
    THEN [exc |-> "InvalidKeyError", list |-> _list, dict |-> _dict, keyName |-> _keyName]
    ELSE [exc |-> "NotInACollectionError", list |-> _list, dict |-> _dict, keyName |-> _keyName]

\* DictWriter.getDict()
getDict == _dict

\* ValueWrite dropping the pending pair name when the type check fails
ValueWriteDropsName(op, value, typeOk) ==
    LET r == IF typeOk
             THEN _writeValue(value)
             ELSE [exc |-> "InvalidTypeError", list |-> _list, dict |-> _dict,
                   keyName |-> NONE]
    IN /\ _list' = r.list
       /\ _dict' = r.dict
       /\ _keyName' = r.keyName
       /\ raised' = r.exc
       /\ calls' = Append(calls, Call(op, value, r.exc))
       /\ UNCHANGED <<_collectionStack, _closed>>
       /\ UNCHANGED <<readerVars, callbackVars, classifyVars, laterVars>>

\* a writer call that ends with outcome r of _writeValue, or with
\* InvalidTypeError before _writeValue is reached
ValueWrite(op, value, typeOk) ==
    LET r == IF typeOk
             THEN _writeValue(value)
             ELSE [exc |-> "InvalidTypeError", list |-> _list, dict |-> _dict,
                   keyName |-> _keyName]
    IN /\ _list' = r.list
       /\ _dict' = r.dict
       /\ _keyName' = r.keyName
       /\ raised' = r.exc
       /\ calls' = Append(calls, Call(op, value, r.exc))
       /\ UNCHANGED <<_collectionStack, _closed>>
       /\ UNCHANGED <<readerVars, callbackVars, classifyVars, laterVars>>

writeNullValue ==
    /\ Len(calls) < MaxCalls
    /\ ValueWrite("writeNullValue", NONE, TRUE)

writeBoolValue ==
    \E value \in Values :
        /\ Len(calls) < MaxCalls
        /\ ValueWrite("writeBoolValue",
                      IF isBool(value) THEN PyBool(Truthy(value)) ELSE value,
                      isBool(value))

writeIntValue ==
    \E value \in Values :
        /\ Len(calls) < MaxCalls
        /\ ValueWrite("writeIntValue", value, isInt(value))

writeStringValue ==
    \E value \in Values :
        /\ Len(calls) < MaxCalls
        /\ ValueWrite("writeStringValue", value, isString(value))

\* a writer call that touches no field but the one given
Returns(op, arg, exc) ==
    /\ Len(calls) < MaxCalls
    /\ raised' = exc
    /\ calls' = Append(calls, Call(op, arg, exc))
    /\ UNCHANGED <<readerVars, callbackVars, classifyVars, laterVars>>

writePairStart ==
    \E name \in Names :
        IF Truthy(_keyName)
        THEN /\ Returns("writePairStart", name, "InvalidKeyError")
             /\ UNCHANGED <<_dict, _collectionStack, _list, _keyName, _closed>>
        ELSE /\ Returns("writePairStart", name, "none")
             /\ _keyName' = name
             /\ UNCHANGED <<_dict, _collectionStack, _list, _closed>>

writeListStart ==
    /\ Returns("writeListStart", NONE, "none")
    /\ UNCHANGED <<_dict, _collectionStack, _list, _keyName, _closed>>

writeDictionaryStart ==
    /\ Returns("writeDictionaryStart", NONE, "none")
    /\ UNCHANGED <<_dict, _collectionStack, _list, _keyName, _closed>>

writePackableStart ==
    /\ Returns("writePackableStart", Header, "none")
    /\ UNCHANGED <<_dict, _collectionStack, _list, _keyName, _closed>>

writeEnd ==
    /\ Returns("writeEnd", NONE, "none")
    /\ UNCHANGED <<_dict, _collectionStack, _list, _keyName, _closed>>

close ==
    /\ Returns("close", NONE, "none")
    /\ _closed' = TRUE
    /\ UNCHANGED <<_dict, _collectionStack, _list, _keyName>>

---------------------------------------------------------------------------
(* ChildReader                                                             *)

\* BaseTypeIds members the reader code names, and an element (id, value)
END == "END"
Elem(id, val) == [id |-> id, val |-> val]
ScopeIds == {"LIST", "DICTIONARY", "PACKABLE"}

\* the elements a parent reader holds in the model
ParentElems == {Elem("LIST", NONE), Elem(END, NONE), Elem("INT", PyInt(1))}
\* the first elements handed to the constructor
FirstElems ==
    {Elem("LIST", NONE), Elem("DICTIONARY", NONE), Elem("PACKABLE", Header),
     Elem("INT", PyInt(1)), Elem("PAIR", PyStr("a")), NONE}

\* every parent stream of at most MaxParent elements
ParentStreams == UNION {[1..n -> ParentElems] : n \in 0..MaxParent}

\* ChildReader.__init__(parentReader, firstElem)
ChildReaderInit ==
    /\ _parentReader \in ParentStreams
    /\ parentHasNext \in BOOLEAN
    /\ firstElem \in FirstElems
    /\ _first = firstElem
    /\ _depth = 1
    /\ parentPos = 0
    /\ readerRaised = "none"
    /\ yielded = <<>>

\* ChildReader.__next__().  The test of _depth at its head does nothing (pass).
\* The element it takes is the parent's next one while _first is not None, and
\* _first (None) otherwise; elem[0] of None is a TypeError.  The parent is
\* asked through its method next(): a parent without one (a BaseTypeReader of
\* this library defines only __next__) raises AttributeError.
ChildReaderNext ==
    IF _first # NONE
    THEN IF ~parentHasNext
         THEN /\ readerRaised' = "AttributeError"
              /\ UNCHANGED <<_parentReader, _first, _depth, parentPos, yielded>>
         ELSE IF parentPos < Len(_parentReader)
         THEN LET elem == _parentReader[parentPos + 1]
              IN /\ parentPos' = parentPos + 1
                 /\ _depth' = IF elem.id = END THEN _depth - 1 ELSE _depth
                 /\ yielded' = Append(yielded, elem)
                 /\ readerRaised' = "none"
                 /\ UNCHANGED <<_parentReader, _first>>
         ELSE \* the parent is exhausted: its next() raises, and so does this call
              /\ readerRaised' = "StopIteration"
              /\ UNCHANGED <<_parentReader, _first, _depth, parentPos, yielded>>
    ELSE /\ _first' = NONE
         /\ readerRaised' = "TypeError"
         /\ UNCHANGED <<_parentReader, _depth, parentPos, yielded>>

__next__ ==
    /\ ChildReaderNext
    /\ UNCHANGED <<firstElem, parentHasNext>>
    /\ UNCHANGED <<writerVars, callbackVars, classifyVars, laterVars>>

---------------------------------------------------------------------------
(* readWithCallbacks                                                       *)

\* the tokens a reader may yield to readWithCallbacks
StreamElems ==
    {Elem(END, NONE), Elem("PAIR", PyStr("a")), Elem("LIST", NONE),
     Elem("DICTIONARY", NONE), Elem("PACKABLE", Header), Elem("INT", PyInt(1))}

Streams == UNION {[1..n -> StreamElems] : n \in 0..MaxStream}

\* what a callback may do: return a value (true, false, or nothing at all) or
\* raise
CallbackOutcomes ==
    {[exc |-> FALSE, ret |-> PyBool(TRUE)], [exc |-> FALSE, ret |-> PyBool(FALSE)],
     [exc |-> FALSE, ret |-> NONE], [exc |-> TRUE, ret |-> NONE]}

readWithCallbacksInit ==
    /\ reader \in Streams
    /\ readerPos = 0
    /\ dispatched = <<>>
    /\ returned = "running"

\* the token the loop takes next
elem == reader[readerPos + 1]

\* one turn of the loop with the callback's return value ignored
DispatchUnchecked(callback, args) ==
    /\ readerPos' = readerPos + 1
    /\ \E out \in CallbackOutcomes :
          /\ dispatched' = Append(dispatched,
                                  [callback |-> callback, args |-> args, out |-> out])
          /\ returned' = IF out.exc THEN "raised" ELSE "running"
    /\ UNCHANGED reader
    /\ UNCHANGED <<writerVars, readerVars, classifyVars, laterVars>>

\* one turn of a loop that takes a second token from the reader before it
\* calls the callback for the first
DispatchReadAhead(callback, args) ==
    /\ readerPos' = IF readerPos + 1 < Len(reader) THEN readerPos + 2
                    ELSE readerPos + 1
    /\ \E out \in CallbackOutcomes :
          /\ dispatched' = Append(dispatched,
                                  [callback |-> callback, args |-> args, out |-> out])
          /\ returned' = IF out.exc THEN "raised"
                         ELSE IF ~Truthy(out.ret) THEN "False"
                         ELSE "running"
    /\ UNCHANGED reader
    /\ UNCHANGED <<writerVars, readerVars, classifyVars, laterVars>>

\* one turn of the loop: the callback is called; the function returns False
\* if what it returned is not true, and the callback's exception leaves the
\* function with it
Dispatch(callback, args) ==
    /\ readerPos' = readerPos + 1
    /\ \E out \in CallbackOutcomes :
          /\ dispatched' = Append(dispatched,
                                  [callback |-> callback, args |-> args, out |-> out])
          /\ returned' = IF out.exc THEN "raised"
                         ELSE IF ~Truthy(out.ret) THEN "False"
                         ELSE "running"
    /\ UNCHANGED reader
    /\ UNCHANGED <<writerVars, readerVars, classifyVars, laterVars>>

\* the loop has a token to take
Looping == returned = "running" /\ readerPos < Len(reader)

onEnd ==
    /\ Looping
    /\ elem.id = END
    /\ Dispatch("onEnd", <<>>)

onPairStart ==
    /\ Looping
    /\ elem.id = "PAIR"
    /\ Dispatch("onPairStart", <<elem.val>>)

onListStart ==
    /\ Looping
    /\ elem.id = "LIST"
    /\ Dispatch("onListStart", <<>>)

onDictionaryStart ==
    /\ Looping
    /\ elem.id = "DICTIONARY"
    /\ Dispatch("onDictionaryStart", <<>>)

\* the packable callback called without the token's header
onPackableStartNoHeader ==
    /\ Looping
    /\ elem.id = "PACKABLE"
    /\ Dispatch("onPackableStart", <<>>)

onPackableStart ==
    /\ Looping
    /\ elem.id = "PACKABLE"
    /\ Dispatch("onPackableStart", <<elem.val>>)

onValue ==
    /\ Looping
    /\ elem.id \notin {END, "PAIR", "LIST", "DICTIONARY", "PACKABLE"}
    /\ Dispatch("onValue", <<elem.id, elem.val>>)

\* the reader is exhausted: the loop ends and the function returns True
readWithCallbacksReturn ==
    /\ returned = "running"
    /\ readerPos = Len(reader)
    /\ returned' = "True"
    /\ UNCHANGED <<reader, readerPos, dispatched>>
    /\ UNCHANGED <<writerVars, readerVars, classifyVars, laterVars>>

\* readWithCallbacks while another specification runs
CallbacksIdle ==
    /\ reader = <<>>
    /\ readerPos = 0
    /\ dispatched = <<>>
    /\ returned = "running"

---------------------------------------------------------------------------
(* Classification: getBaseTypeId and isBaseType                            *)

\* the members of BaseTypeIds
BaseTypeIds ==
    {"NULL", "BOOL", "INT", "FLOAT", "DATETIME", "STRING", "URN", "TAG", "BLOB",
     "PAIR", "COLOR", "GEOLOCATION", "PREDICATE", "LIST", "DICTIONARY",
     "PACKABLE", END}

\* the keys of _baseTypeCheckers, in the order the dictionary gives them
_baseTypeCheckersKeys ==
    <<"NULL", "BOOL", "INT", "FLOAT", "DATETIME", "STRING", "TAG", "PAIR", "LIST",
      "DICTIONARY", "PACKABLE">>

isBaseTypeTag(val) == val.t = "Tag"
isBaseTypePackable(val) == val.t = "Packable"

RECURSIVE isBaseType(_)
RECURSIVE isBaseTypePair(_)
RECURSIVE isBaseTypeList(_)
RECURSIVE isBaseTypeDict(_)
RECURSIVE _baseTypeCheckers(_, _)

isBaseTypePair(val) ==
    IF isTuple(val) /\ Len(val.items) = 2
    THEN isString(val.items[1]) /\ isBaseType(val.items[2])
    ELSE FALSE

isBaseTypeList(val) ==
    IF isList(val) \/ isTuple(val)
    THEN \A i \in 1..Len(val.items) :
            LET v == val.items[i]
            IN IF (isList(v) \/ isTuple(v)) /\ ~isBaseTypeList(v) THEN FALSE
               ELSE IF isDict(v) /\ ~isBaseTypeDict(v) THEN FALSE
               ELSE isBaseType(v)
    ELSE FALSE

\* isBaseTypeDict without the test of the keys
isBaseTypeDictAnyKey(val) ==
    IF isDict(val)
    THEN \A i \in 1..Len(val.items) :
            LET v == val.items[i][2]
            IN IF (isList(v) \/ isTuple(v)) /\ ~isBaseTypeList(v) THEN FALSE
               ELSE IF isDict(v) /\ ~isBaseTypeDict(v) THEN FALSE
               ELSE isBaseType(v)
    ELSE FALSE

isBaseTypeDict(val) ==
    IF isDict(val)
    THEN \A i \in 1..Len(val.items) :
            LET k == val.items[i][1]
                v == val.items[i][2]
            IN IF ~isString(k) THEN FALSE
               ELSE IF (isList(v) \/ isTuple(v)) /\ ~isBaseTypeList(v) THEN FALSE
               ELSE IF isDict(v) /\ ~isBaseTypeDict(v) THEN FALSE
               ELSE isBaseType(v)
    ELSE FALSE

\* _baseTypeCheckers[id](val)
_baseTypeCheckers(id, val) ==
    CASE id = "NULL" -> isNone(val)
      [] id = "BOOL" -> isBool(val)
      [] id = "INT" -> isInt(val)
      [] id = "FLOAT" -> isFloat(val)
      [] id = "DATETIME" -> isDateTime(val)
      [] id = "STRING" -> isString(val)
      [] id = "TAG" -> isBaseTypeTag(val)
      [] id = "PAIR" -> isBaseTypePair(val)
      [] id = "LIST" -> isBaseTypeList(val)
      [] id = "DICTIONARY" -> isBaseTypeDict(val)
      [] id = "PACKABLE" -> isBaseTypePackable(val)

isBaseType(val) ==
    \E i \in 1..Len(_baseTypeCheckersKeys) : _baseTypeCheckers(_baseTypeCheckersKeys[i], val)

\* the outcome of a call: what it returned, or the exception it raised
Returned(ret) == [exc |-> "none", ret |-> ret]
Raised(exc) == [exc |-> exc, ret |-> "none"]

\* the positions in _baseTypeCheckersKeys of the checkers that accept val
Accepting(val) ==
    {i \in 1..Len(_baseTypeCheckersKeys) : _baseTypeCheckers(_baseTypeCheckersKeys[i], val)}

\* getBaseTypeId answering END for a value no checker accepts
getBaseTypeIdEndForUnknown(val) ==
    IF Accepting(val) = {}
    THEN Returned(END)
    ELSE Returned(_baseTypeCheckersKeys[CHOOSE i \in Accepting(val) :
                                           \A j \in Accepting(val) : i <= j])

\* getBaseTypeId going through all the checkers and keeping the last that accepts
getBaseTypeIdLastMatch(val) ==
    IF Accepting(val) = {}
    THEN Raised("TypeError")
    ELSE Returned(_baseTypeCheckersKeys[CHOOSE i \in Accepting(val) :
                                           \A j \in Accepting(val) : i >= j])

getBaseTypeId(val) ==
    IF Accepting(val) = {}
    THEN Raised("TypeError")
    ELSE Returned(_baseTypeCheckersKeys[CHOOSE i \in Accepting(val) :
                                           \A j \in Accepting(val) : i <= j])

\* checkBaseType raising the KeyError of an id that has no checker
checkBaseTypeKeyError(baseTypeEnum, val) ==
    IF \E i \in 1..Len(_baseTypeCheckersKeys) : _baseTypeCheckersKeys[i] = baseTypeEnum
    THEN Returned(_baseTypeCheckers(baseTypeEnum, val))
    ELSE Raised("KeyError")

\* checkBaseType(baseTypeEnum, val): the checker's answer; the KeyError of an
\* id that is no key of _baseTypeCheckers is caught and False returned
checkBaseType(baseTypeEnum, val) ==
    IF \E i \in 1..Len(_baseTypeCheckersKeys) : _baseTypeCheckersKeys[i] = baseTypeEnum
    THEN Returned(_baseTypeCheckers(baseTypeEnum, val))
    ELSE Returned(FALSE)

\* the test a member v of a list goes through in the loop of isBaseTypeList
ListMemberFails(v) ==
    IF (isList(v) \/ isTuple(v)) /\ ~isBaseTypeList(v) THEN TRUE
    ELSE IF isDict(v) /\ ~isBaseTypeDict(v) THEN TRUE
    ELSE ~isBaseType(v)

\* the test an item (k, v) of a dictionary goes through in the loop of
\* isBaseTypeDict
DictItemFails(k, v) ==
    IF ~isString(k) THEN TRUE
    ELSE IF (isList(v) \/ isTuple(v)) /\ ~isBaseTypeList(v) THEN TRUE
    ELSE IF isDict(v) /\ ~isBaseTypeDict(v) THEN TRUE
    ELSE ~isBaseType(v)

RECURSIVE isBaseTypeListLoopToTheEnd(_, _)
RECURSIVE isBaseTypeListLoop(_, _)
RECURSIVE isBaseTypeDictLoop(_, _)

\* the loop of isBaseTypeList going through every member before it answers
isBaseTypeListLoopToTheEnd(val, i) ==
    IF i > Len(val.items)
    THEN [ret |-> TRUE, count |-> i - 1]
    ELSE LET rest == isBaseTypeListLoopToTheEnd(val, i + 1)
         IN [ret |-> ~ListMemberFails(val.items[i]) /\ rest.ret, count |-> rest.count]

\* the loop 'for v in val' of isBaseTypeList from the i-th member on: what
\* the function returns and how many members the loop has taken by then
isBaseTypeListLoop(val, i) ==
    IF i > Len(val.items)
    THEN [ret |-> TRUE, count |-> i - 1]
    ELSE IF ListMemberFails(val.items[i])
    THEN [ret |-> FALSE, count |-> i]
    ELSE isBaseTypeListLoop(val, i + 1)

\* the loop 'for k, v in val.items()' of isBaseTypeDict from the i-th item on
isBaseTypeDictLoop(val, i) ==
    IF i > Len(val.items)
    THEN [ret |-> TRUE, count |-> i - 1]
    ELSE IF DictItemFails(val.items[i][1], val.items[i][2])
    THEN [ret |-> FALSE, count |-> i]
    ELSE isBaseTypeDictLoop(val, i + 1)

\* isBaseTypeList(val) with the number of members its loop examined
isBaseTypeListScan(val) ==
    IF isList(val) \/ isTuple(val)
    THEN isBaseTypeListLoop(val, 1)
    ELSE [ret |-> FALSE, count |-> 0]

\* isBaseTypeDict(val) with the number of items its loop examined
isBaseTypeDictScan(val) ==
    IF isDict(val)
    THEN isBaseTypeDictLoop(val, 1)
    ELSE [ret |-> FALSE, count |-> 0]

\* the values handed to the two functions: the plain values, and tuples,
\* lists and dictionaries of at most MaxItems members
Plain ==
    {NONE, PyBool(TRUE), PyBool(FALSE), PyInt(0), PyInt(1), PyFloat(1), PyStr(""),
     PyStr("a"), PyObject("datetime"), PyObject("Tag"), PyObject("Packable"),
     PyObject("object")}

Members ==
    {PyInt(1), PyStr("a"), PyObject("object"), PyList(<<>>),
     PyList(<<PyObject("object")>>), PyDict(<<>>),
     PyDict(<<<<PyInt(1), PyInt(1)>>>>),
     PyTuple(<<PyStr("a"), PyInt(1)>>)}

DictKeys == {PyStr("a"), PyInt(1)}

MemberSeqs == UNION {[1..n -> Members] : n \in 0..MaxItems}

\* the items of a dictionary: its keys are distinct
ItemSeqs ==
    {items \in UNION {[1..n -> DictKeys \X Members] : n \in 0..MaxItems} :
        \A i, j \in 1..Len(items) : items[i][1] = items[j][1] => i = j}

PyVals ==
    Plain \cup {PyTuple(m) : m \in MemberSeqs} \cup {PyList(m) : m \in MemberSeqs}
          \cup {PyDict(d) : d \in ItemSeqs}

ClassifyInit ==
    /\ pyVal \in PyVals
    /\ ids = <<>>
    /\ checks = <<>>
    /\ typeCheck = NONE
    /\ examined = NONE

\* a call getBaseTypeId(pyVal)
getBaseTypeIdCall ==
    /\ Len(ids) < MaxRepeat
    /\ ids' = Append(ids, getBaseTypeId(pyVal))
    /\ UNCHANGED <<pyVal, checks, typeCheck, examined>>
    /\ UNCHANGED <<writerVars, readerVars, callbackVars, laterVars>>

\* a call isBaseType(pyVal)
isBaseTypeCall ==
    /\ Len(checks) < MaxRepeat
    /\ checks' = Append(checks, Returned(isBaseType(pyVal)))
    /\ UNCHANGED <<pyVal, ids, typeCheck, examined>>
    /\ UNCHANGED <<writerVars, readerVars, callbackVars, laterVars>>

\* a call checkBaseType(id, pyVal)
checkBaseTypeCall ==
    \E id \in BaseTypeIds :
        /\ typeCheck' = [id |-> id, out |-> checkBaseType(id, pyVal)]
        /\ UNCHANGED <<pyVal, ids, checks, examined>>
        /\ UNCHANGED <<writerVars, readerVars, callbackVars, laterVars>>

\* a call isBaseTypeList(pyVal), its loop observed
isBaseTypeListCall ==
    /\ examined' = [fn |-> "isBaseTypeList"] @@ isBaseTypeListScan(pyVal)
    /\ UNCHANGED <<pyVal, ids, checks, typeCheck>>
    /\ UNCHANGED <<writerVars, readerVars, callbackVars, laterVars>>

\* a call isBaseTypeDict(pyVal), its loop observed
isBaseTypeDictCall ==
    /\ examined' = [fn |-> "isBaseTypeDict"] @@ isBaseTypeDictScan(pyVal)
    /\ UNCHANGED <<pyVal, ids, checks, typeCheck>>
    /\ UNCHANGED <<writerVars, readerVars, callbackVars, laterVars>>

\* the classification functions while another specification runs
ClassifyIdle ==
    /\ pyVal = NONE
    /\ ids = <<>>
    /\ checks = <<>>
    /\ typeCheck = NONE
    /\ examined = NONE

\* the reader's fields while the writer's specification runs
ReaderIdle ==
    /\ _parentReader = <<>>
    /\ _first = NONE
    /\ _depth = 1
    /\ firstElem = NONE
    /\ parentHasNext = FALSE
    /\ parentPos = 0
    /\ readerRaised = "none"
    /\ yielded = <<>>
---------------------------------------------------------------------------
(* The category predicates of basetypes/typehelpers.py                     *)

\* the tuple (BaseTypeIds.X, ...) of a predicate: naming a member that
\* BaseTypeIds does not have raises AttributeError before the test is made
InTuple(id, names) ==
    IF names \subseteq BaseTypeIds
    THEN Returned(id \in names)
    ELSE Raised("AttributeError")

isValueTypeId(id) == InTuple(id, {"NULL", "BOOL", "INT", "FLOAT"})

isStorageTypeId(id) == InTuple(id, {"DATE", "STRING", "URL", "TAG", "BLOB"})

\* `id in (BaseTypeIds.PAIR)`: the parentheses make no tuple, and a member of
\* an Enum is no container
isStructureTypeId(id) ==
    IF "PAIR" \in BaseTypeIds THEN Raised("TypeError") ELSE Raised("AttributeError")

isCollectionTypeId(id) == InTuple(id, {"DICTIONARY", "LIST"})

isPackableTypeId(id) ==
    IF "PACKABLE" \in BaseTypeIds THEN Returned(id = "PACKABLE") ELSE Raised("AttributeError")

isEndTypeId(id) ==
    IF END \in BaseTypeIds THEN Returned(id = END) ELSE Raised("AttributeError")

IdCheck(fn, id, out) == [fn |-> fn, id |-> id, out |-> out]

TypeIdInit == idChecked = NONE

\* a call of each category predicate on a member of BaseTypeIds
isValueTypeIdCall ==
    \E id \in BaseTypeIds :
        /\ idChecked' = IdCheck("isValueTypeId", id, isValueTypeId(id))
        /\ UNCHANGED <<earlierVars, sheetVars, sharedVars, tagVars, factoryVars>>

isStorageTypeIdCall ==
    \E id \in BaseTypeIds :
        /\ idChecked' = IdCheck("isStorageTypeId", id, isStorageTypeId(id))
        /\ UNCHANGED <<earlierVars, sheetVars, sharedVars, tagVars, factoryVars>>

isStructureTypeIdCall ==
    \E id \in BaseTypeIds :
        /\ idChecked' = IdCheck("isStructureTypeId", id, isStructureTypeId(id))
        /\ UNCHANGED <<earlierVars, sheetVars, sharedVars, tagVars, factoryVars>>

isCollectionTypeIdCall ==
    \E id \in BaseTypeIds :
        /\ idChecked' = IdCheck("isCollectionTypeId", id, isCollectionTypeId(id))
        /\ UNCHANGED <<earlierVars, sheetVars, sharedVars, tagVars, factoryVars>>

isPackableTypeIdCall ==
    \E id \in BaseTypeIds :
        /\ idChecked' = IdCheck("isPackableTypeId", id, isPackableTypeId(id))
        /\ UNCHANGED <<earlierVars, sheetVars, sharedVars, tagVars, factoryVars>>

isEndTypeIdCall ==
    \E id \in BaseTypeIds :
        /\ idChecked' = IdCheck("isEndTypeId", id, isEndTypeId(id))
        /\ UNCHANGED <<earlierVars, sheetVars, sharedVars, tagVars, factoryVars>>

---------------------------------------------------------------------------
(* Tag.  A Python str is held here as the sequence of its characters, so   *)
(* that split, lower, strptime and format work on the text itself.         *)

\* a datetime.date
PyDate(y, m, d) == [t |-> "date", y |-> y, m |-> m, d |-> d]
isDate(val) == val.t \in {"date", "datetime"}

\* str.split(sep), for a separator of one character
RECURSIVE split(_, _)
split(text, sep) ==
    IF \E i \in 1..Len(text) : text[i] = sep
    THEN LET i == CHOOSE i \in 1..Len(text) :
                     text[i] = sep /\ \A j \in 1..(i - 1) : text[j] # sep
         IN <<SubSeq(text, 1, i - 1)>> \o split(SubSeq(text, i + 1, Len(text)), sep)
    ELSE <<text>>

\* str.lower(), on the letters the model's texts have in upper case
lower(text) ==
    [i \in 1..Len(text) |->
        CASE text[i] = "T" -> "t"
          [] text[i] = "A" -> "a"
          [] text[i] = "G" -> "g"
          [] OTHER -> text[i]]

DigitChars == <<"0", "1", "2", "3", "4", "5", "6", "7", "8", "9">>
isdigit(c) == \E i \in 1..Len(DigitChars) : DigitChars[i] = c
DigitOf(c) == (CHOOSE i \in 1..Len(DigitChars) : DigitChars[i] = c) - 1

\* int(text) for a text of digits
RECURSIVE int(_)
int(text) ==
    IF text = <<>> THEN 0
    ELSE int(SubSeq(text, 1, Len(text) - 1)) * Len(DigitChars) + DigitOf(text[Len(text)])

\* "{}".format(n) for a number n >= 0: its decimal digits, without padding
RECURSIVE format(_)
format(n) ==
    IF n < Len(DigitChars) THEN <<DigitChars[n + 1]>>
    ELSE format(n \div Len(DigitChars)) \o <<DigitChars[(n % Len(DigitChars)) + 1]>>

digits(text) == \A i \in 1..Len(text) : isdigit(text[i])

\* what strptime's directives match: %Y four digits, %m 1..12 and %d 1..31,
\* each with or without a leading zero
MatchesY(text) == Len(text) = 4 /\ digits(text)
MatchesM(text) ==
    /\ Len(text) \in {1, 2}
    /\ digits(text)
    /\ int(text) \in 1..12
MatchesD(text) ==
    /\ Len(text) \in {1, 2}
    /\ digits(text)
    /\ int(text) \in 1..31

\* the days of a month, as datetime.date checks them
DaysIn(y, m) ==
    CASE m \in {4, 6, 9, 11} -> 30
      [] m = 2 -> IF y % 4 = 0 /\ (y % 100 # 0 \/ y % 400 = 0) THEN 29 ELSE 28
      [] OTHER -> 31

Parsed(date) == [exc |-> "none", date |-> date]
NotParsed == [exc |-> "ValueError", date |-> NONE]

\* datetime.strptime(text, fmt).date() for the three formats Tag uses: the
\* text must match the whole format, and name a date that exists
strptime(text, fmt) ==
    LET fields == split(text, "-")
        wanted == CASE fmt = "%Y-%m-%d" -> 3 [] fmt = "%Y-%m" -> 2 [] fmt = "%Y" -> 1
    IN IF /\ Len(fields) = wanted
          /\ MatchesY(fields[1])
          /\ wanted >= 2 => MatchesM(fields[2])
          /\ wanted >= 3 => MatchesD(fields[3])
       THEN LET y == int(fields[1])
                m == IF wanted >= 2 THEN int(fields[2]) ELSE 1
                d == IF wanted >= 3 THEN int(fields[3]) ELSE 1
            IN IF y >= 1 /\ d <= DaysIn(y, m) THEN Parsed(PyDate(y, m, d)) ELSE NotParsed
       ELSE NotParsed

\* "Attempt to convert the date three different ways"
ConvertDate(text) ==
    IF strptime(text, "%Y-%m-%d").exc = "none" THEN strptime(text, "%Y-%m-%d")
    ELSE IF strptime(text, "%Y-%m").exc = "none" THEN strptime(text, "%Y-%m")
    ELSE strptime(text, "%Y")

\* a Tag, and a construction that raised
TagOf(authority, date, specific, fragment) ==
    [exc |-> "none", authority |-> authority, date |-> date, specific |-> specific,
     fragment |-> fragment]
NoTag(exc) ==
    [exc |-> exc, authority |-> NONE, date |-> NONE, specific |-> NONE, fragment |-> NONE]

\* the test of the scheme made with the case of the letters kept
SchemeOkCaseKept(colonSplit) == Len(colonSplit) = 3 /\ colonSplit[1] = <<"t", "a", "g">>

\* len(colonSplit) == 3 and colonSplit[0].lower() == 'tag'
SchemeOk(colonSplit) == Len(colonSplit) = 3 /\ lower(colonSplit[1]) = <<"t", "a", "g">>

\* the parsing of a tag URI in Tag.__init__: the arguments as they stand
\* after it, or the exception it raises
ParseTagUri(tagUri, authority, date, specific, fragment) ==
    LET colonSplit == split(tagUri, ":")
    IN IF SchemeOk(colonSplit)
       THEN LET commaSplit == split(colonSplit[2], ",")
                hashSplit == split(colonSplit[3], "#")
            IN IF Len(commaSplit) # 2 THEN NoTag("ValueError")
               ELSE LET converted == IF date = NONE
                                     THEN ConvertDate(commaSplit[2])
                                     ELSE Parsed(date)
                    IN IF converted.exc # "none" THEN NoTag("ValueError")
                       ELSE IF Len(hashSplit) > 2 THEN NoTag("ValueError")
                       ELSE TagOf(IF authority = NONE THEN PyStr(commaSplit[1])
                                  ELSE authority,
                                  converted.date,
                                  IF specific = NONE THEN PyStr(hashSplit[1])
                                  ELSE specific,
                                  IF Len(hashSplit) = 2 /\ fragment = NONE
                                  THEN PyStr(hashSplit[2])
                                  ELSE fragment)
       ELSE NoTag("ValueError")

\* Tag.__init__; thisYear is the year datetime.now() gives
Tag(tagUri, authority, date, specific, fragment, thisYear) ==
    LET given == IF isString(tagUri)
                 THEN ParseTagUri(tagUri.s, authority, date, specific, fragment)
                 ELSE IF tagUri # NONE THEN NoTag("TypeError")
                 ELSE TagOf(authority, date, specific, fragment)
        dated == IF given.date = NONE THEN PyDate(thisYear, 1, 1) ELSE given.date
    IN IF given.exc # "none" THEN given
       ELSE IF ~isString(given.authority) THEN NoTag("TypeError")
       ELSE IF ~isDate(dated) THEN NoTag("TypeError")
       ELSE IF ~isString(given.specific) THEN NoTag("TypeError")
       ELSE IF ~isString(given.fragment) /\ given.fragment # NONE THEN NoTag("TypeError")
       ELSE TagOf(given.authority, dated, given.specific, given.fragment)

\* dateString always written with month and day
dateStringInFull(self) ==
    format(self.date.y) \o <<"-">> \o format(self.date.m) \o <<"-">> \o format(self.date.d)

dateString(self) ==
    IF self.date.d = 1
    THEN IF self.date.m = 1
         THEN format(self.date.y)
         ELSE format(self.date.y) \o <<"-">> \o format(self.date.m)
    ELSE format(self.date.y) \o <<"-">> \o format(self.date.m) \o <<"-">> \o format(self.date.d)

taggingEntityString(self) == self.authority.s \o <<",">> \o dateString(self)

\* __str__ leaving out a fragment that is empty
__str__IfFragment(self) ==
    IF self.fragment = NONE \/ self.fragment.s = <<>>
    THEN <<"t", "a", "g", ":">> \o taggingEntityString(self) \o <<":">> \o self.specific.s
    ELSE <<"t", "a", "g", ":">> \o taggingEntityString(self) \o <<":">> \o self.specific.s
             \o <<"#">> \o self.fragment.s

__str__(self) ==
    IF self.fragment = NONE
    THEN <<"t", "a", "g", ":">> \o taggingEntityString(self) \o <<":">> \o self.specific.s
    ELSE <<"t", "a", "g", ":">> \o taggingEntityString(self) \o <<":">> \o self.specific.s
             \o <<"#">> \o self.fragment.s

\* the texts the model builds tag URIs from
Schemes == {<<"t", "a", "g">>, <<"T", "A", "G">>, <<"t", "a", "b">>}
DateTexts ==
    {<<"2", "0", "1", "9">>,
     <<"2", "0", "1", "9", "-", "4">>,
     <<"2", "0", "1", "9", "-", "0", "4">>,
     <<"2", "0", "1", "9", "-", "4", "-", "2", "8">>,
     <<"2", "0", "1", "9", "-", "1", "-", "1">>,
     <<"2", "0", "1", "9", "-", "2", "-", "3", "0">>,
     <<"0", "9", "9", "9">>,
     <<"9", "9", "9">>,
     <<"2", "0", "1", "9", "-", "1", "3">>,
     <<"2", "0", "x">>}
TaggingEntities ==
    {<<"a", ",">> \o d : d \in DateTexts}
        \cup {<<"a">>, <<",", "2", "0", "1", "9">>, <<"a", ",", "2", "0", "1", "9", ",", "1">>}
Rests ==
    {<<"x">>,
     <<"x", "#", "f">>,
     <<"x", "#">>,
     <<"x", "#", "f", "#", "g">>,
     <<>>,
     <<"x", ":", "y">>}
TagUris ==
    {s \o <<":">> \o e \o <<":">> \o r : s \in Schemes, e \in TaggingEntities, r \in Rests}
        \cup {<<"t", "a", "g">>, <<"t", "a", "g", ":", "a", ",", "2", "0", "1", "9">>}

\* the years datetime.now() may give
ThisYears == {2019, 2026}

TagCall(tagUri, authority, date, specific, fragment) ==
    [tagUri |-> tagUri, authority |-> authority, date |-> date, specific |-> specific,
     fragment |-> fragment]

\* the constructor calls of the model: from a tag URI alone, from the
\* discrete fields, and from a tag URI with a field given beside it
TagCalls ==
    {TagCall(PyStr(u), NONE, NONE, NONE, NONE) : u \in TagUris}
        \cup {TagCall(NONE, a, d, s, f) :
                 a \in {PyStr(<<"a">>), PyStr(<<"a", ",", "b">>), NONE},
                 d \in {NONE, PyDate(2019, 1, 1), PyDate(2019, 4, 28), PyDate(999, 1, 1),
                        PyInt(1)},
                 s \in {PyStr(<<"x">>), PyStr(<<"x", ":", "y">>), PyStr(<<"x", "#", "y">>),
                        NONE},
                 f \in {NONE, PyStr(<<"f">>), PyStr(<<"f", "#", "g">>), PyInt(1)}}
        \cup {TagCall(PyStr(u), NONE, d, NONE, f) :
                 u \in {<<"t", "a", "g", ":", "a", ",", "2", "0", "1", "9", ":", "x">>, <<"t", "a", "g", ":", "a", ",", "2", "0", "x", ":", "x">>},
                 d \in {NONE, PyDate(2019, 4, 28)},
                 f \in {NONE, PyStr(<<"g">>)}}
        \cup {TagCall(PyInt(1), NONE, NONE, NONE, NONE)}

TagInit ==
    /\ tagArgs = NONE
    /\ tag = NONE
    /\ tagStr = NONE
    /\ tagDateString = NONE
    /\ reparsed = NONE

\* Tag(...) is called
NewTag ==
    /\ tag = NONE
    /\ \E call \in TagCalls, thisYear \in ThisYears :
          /\ tagArgs' = call
          /\ tag' = Tag(call.tagUri, call.authority, call.date, call.specific,
                        call.fragment, thisYear)
    /\ UNCHANGED <<tagStr, tagDateString, reparsed>>
    /\ UNCHANGED <<earlierVars, sheetVars, sharedVars, typeIdVars, factoryVars>>

\* the Tag made
TagMade == tag # NONE /\ tag.exc = "none"

\* str(tag)
StrTag ==
    /\ TagMade
    /\ tagStr = NONE
    /\ tagStr' = PyStr(__str__(tag))
    /\ UNCHANGED <<tagArgs, tag, tagDateString, reparsed>>
    /\ UNCHANGED <<earlierVars, sheetVars, sharedVars, typeIdVars, factoryVars>>

\* tag.dateString()
DateStringTag ==
    /\ TagMade
    /\ tagDateString = NONE
    /\ tagDateString' = PyStr(dateString(tag))
    /\ UNCHANGED <<tagArgs, tag, tagStr, reparsed>>
    /\ UNCHANGED <<earlierVars, sheetVars, sharedVars, typeIdVars, factoryVars>>

\* Tag(str(tag))
ReparseTag ==
    /\ tagStr # NONE
    /\ reparsed = NONE
    /\ \E thisYear \in ThisYears : reparsed' = Tag(tagStr, NONE, NONE, NONE, NONE, thisYear)
    /\ UNCHANGED <<tagArgs, tag, tagStr, tagDateString>>
    /\ UNCHANGED <<earlierVars, sheetVars, sharedVars, typeIdVars, factoryVars>>

---------------------------------------------------------------------------
(* PackableFactory.makePackable.  makeObject and unpack are abstract, and  *)
(* the reader is the caller's: what they do when called is the behaviour's *)
(* choice, fixed at the start in `collaborators`.                          *)

\* what the reader, makeObject and unpack may do
Collaborators ==
    [hasGetStateId : BOOLEAN,
     stateId : {PyStr("tag:bt.co,2019:state"), PyStr("s"), NONE},
     hints : {NONE, PyDict(<<>>)},
     makeObject : {"object1", "object2", "None", "raises"},
     unpack : {"returns", "raises"}]

\* a call makePackable makes: the method, the object it is called on, the
\* arguments and what it returned
FactoryCall(method, self, args, ret) ==
    [method |-> method, self |-> self, args |-> args, ret |-> ret]

makePackableInit ==
    /\ pc = "getStateId"
    /\ collaborators \in Collaborators
    /\ factoryCalls = <<>>
    /\ outcome = NONE

\* the call ends with an exception
Fails(exc) ==
    /\ pc' = "done"
    /\ outcome' = Raised(exc)

\* the object makeObject returned
obj == factoryCalls[2].ret

\* obj.unpack called without the hints
UnpackCallNoHints(self, baseTypeReader, hints) ==
    FactoryCall("unpack", self, <<baseTypeReader, NONE>>, "None")

\* obj.unpack(baseTypeReader, hints)
UnpackCall(self, baseTypeReader, hints) ==
    FactoryCall("unpack", self, <<baseTypeReader, hints>>, "None")

\* baseTypeReader.getStateId()
getStateId ==
    /\ pc = "getStateId"
    /\ IF collaborators.hasGetStateId
       THEN /\ factoryCalls' = Append(factoryCalls,
                                      FactoryCall("getStateId", "baseTypeReader", <<>>,
                                                  collaborators.stateId))
            /\ pc' = "makeObject"
            /\ UNCHANGED outcome
       ELSE Fails("AttributeError") /\ UNCHANGED factoryCalls
    /\ UNCHANGED collaborators
    /\ UNCHANGED <<earlierVars, sheetVars, sharedVars, typeIdVars, tagVars>>

\* obj = self.makeObject(stateId, hints)
makeObject ==
    /\ pc = "makeObject"
    /\ IF collaborators.makeObject = "raises"
       THEN Fails("Exception") /\ UNCHANGED factoryCalls
       ELSE /\ factoryCalls' = Append(factoryCalls,
                                      FactoryCall("makeObject", "self",
                                                  <<factoryCalls[1].ret, collaborators.hints>>,
                                                  collaborators.makeObject))
            /\ pc' = "unpack"
            /\ UNCHANGED outcome
    /\ UNCHANGED collaborators
    /\ UNCHANGED <<earlierVars, sheetVars, sharedVars, typeIdVars, tagVars>>

\* obj.unpack(baseTypeReader, hints); None has no method unpack
unpack ==
    /\ pc = "unpack"
    /\ IF obj = "None"
       THEN Fails("AttributeError") /\ UNCHANGED factoryCalls
       ELSE /\ factoryCalls' = Append(factoryCalls,
                                      UnpackCall(obj, "baseTypeReader", collaborators.hints))
            /\ IF collaborators.unpack = "raises"
               THEN Fails("Exception")
               ELSE pc' = "return" /\ UNCHANGED outcome
    /\ UNCHANGED collaborators
    /\ UNCHANGED <<earlierVars, sheetVars, sharedVars, typeIdVars, tagVars>>

\* return obj
makePackableReturn ==
    /\ pc = "return"
    /\ pc' = "done"
    /\ outcome' = Returned(obj)
    /\ UNCHANGED <<collaborators, factoryCalls>>
    /\ UNCHANGED <<earlierVars, sheetVars, sharedVars, typeIdVars, tagVars>>

---------------------------------------------------------------------------
(* PropertySheet (commonobjects.py).  A sheet is a record of its fields;    *)
(* the sheets constructed are kept in the order of their construction, and *)
(* a sheet's _parent is the position of an earlier one, or NONE.           *)
(***************************************************************************)

\* Python's ==, on the values of the model: equal values are equal, and so
\* are True and 1, False and 0
PyEq(x, y) ==
    \/ x = y
    \/ x.t \in {"bool", "int"} /\ y.t \in {"bool", "int"} /\ x.n = y.n

\* the keys, values and defaults handed to the methods
PropertyKeys == {PyStr("a"), PyInt(1)}
PropertyValues == {NONE, PyInt(0), PyInt(1)}
PropertyDefaults == {NONE, PyInt(0)}

\* the dictionaries handed to mergeProperties and to the constructor: a
\* dictionary is a sequence of (key, value) items
PropertyDicts ==
    {PyDict(<<<<PyInt(1), PyInt(1)>>>>), PyDict(<<<<PyStr("a"), PyObject("object")>>>>),
     PyDict(<<<<PyStr("a"), NONE>>>>), PyDict(<<<<PyStr("a"), PyInt(1)>>>>)}

\* a reference to the sheet at position i
SheetRef(i) == [t |-> "PropertySheet", s |-> "", n |-> i]

\* self._properties[propertyKey], or None after the KeyError
Stored(sheet, propertyKey) ==
    IF propertyKey \in DOMAIN sheet._properties
    THEN sheet._properties[propertyKey]
    ELSE NONE

\* _properties with propertyKey set to propertyValue
WithProperty(properties, propertyKey, propertyValue) ==
    [k \in DOMAIN properties \cup {propertyKey} |->
        IF k = propertyKey THEN propertyValue ELSE properties[k]]

\* _properties with propertyKey deleted
WithoutProperty(properties, propertyKey) ==
    [k \in DOMAIN properties \ {propertyKey} |-> properties[k]]

\* the outcome of a method on a sheet: the exception or the value returned,
\* and the sheet as the method leaves it
SheetReturned(ret, sheet) == [exc |-> "none", ret |-> ret, sheet |-> sheet]
SheetRaised(exc, sheet) == [exc |-> exc, ret |-> NONE, sheet |-> sheet]

\* the loop of mergeProperties over the items of a dictionary from the i-th
\* on: items with a string key and a base-type value are stored
RECURSIVE MergeItems(_, _, _)
MergeItems(properties, items, i) ==
    IF i > Len(items)
    THEN properties
    ELSE LET k == items[i][1]
             v == items[i][2]
         IN MergeItems(IF isString(k) /\ isBaseType(v)
                       THEN WithProperty(properties, k, v)
                       ELSE properties,
                       items, i + 1)

\* PropertySheet.mergeProperties(properties)
mergeProperties(sheet, properties) ==
    IF sheet._immutable
    THEN SheetRaised("ValueError", sheet)
    ELSE IF isDict(properties)
    THEN SheetReturned(NONE,
            [sheet EXCEPT !._properties = MergeItems(@, properties.items, 1)])
    ELSE IF properties.t = "PropertySheet"
    THEN \* the call is made again with the other sheet's _properties, a
         \* dictionary: its string keys with base-type values are stored
         LET other == sheets[properties.n]._properties
             merged == {k \in DOMAIN other : isString(k) /\ isBaseType(other[k])}
         IN SheetReturned(NONE,
               [sheet EXCEPT !._properties =
                   [k \in DOMAIN @ \cup merged |->
                       IF k \in merged THEN other[k] ELSE @[k]]])
    ELSE SheetRaised("TypeError", sheet)

\* PropertySheet.clearSheet()
clearSheet(sheet) ==
    IF sheet._immutable
    THEN SheetRaised("ValueError", sheet)
    ELSE SheetReturned(NONE, [sheet EXCEPT !._properties = <<>>])

\* PropertySheet.forceImmutable()
forceImmutable(sheet) == SheetReturned(NONE, [sheet EXCEPT !._immutable = TRUE])

\* PropertySheet.isImmutable()
isImmutable(sheet) == SheetReturned(PyBool(sheet._immutable), sheet)

\* PropertySheet.clearProperty(propertyKey): del raises KeyError for a key
\* the dictionary does not hold
clearProperty(sheet, propertyKey) ==
    IF sheet._immutable
    THEN SheetRaised("ValueError", sheet)
    ELSE IF propertyKey \notin DOMAIN sheet._properties
    THEN SheetRaised("KeyError", sheet)
    ELSE SheetReturned(NONE,
            [sheet EXCEPT !._properties = WithoutProperty(@, propertyKey)])

\* setProperty on an immutable sheet going on as on a mutable one
setPropertyOnImmutable(sheet, propertyKey, propertyValue, default) ==
    IF ~isString(propertyKey)
    THEN SheetRaised("KeyError", sheet)
    ELSE IF PyEq(propertyValue, default)
    THEN clearProperty([sheet EXCEPT !._immutable = FALSE], propertyKey)
    ELSE IF ~PyEq(Stored(sheet, propertyKey), propertyValue)
    THEN SheetReturned(NONE,
            [sheet EXCEPT !._properties = WithProperty(@, propertyKey, propertyValue)])
    ELSE SheetReturned(NONE, sheet)

\* PropertySheet.setProperty(propertyKey, propertyValue, default)
setProperty(sheet, propertyKey, propertyValue, default) ==
    IF sheet._immutable
    THEN SheetRaised("ValueError", sheet)
    ELSE IF ~isString(propertyKey)
    THEN SheetRaised("KeyError", sheet)
    ELSE IF PyEq(propertyValue, default)
    THEN clearProperty(sheet, propertyKey)
    ELSE IF ~PyEq(Stored(sheet, propertyKey), propertyValue)
    THEN SheetReturned(NONE,
            [sheet EXCEPT !._properties = WithProperty(@, propertyKey, propertyValue)])
    ELSE SheetReturned(NONE, sheet)

RECURSIVE getProperty(_, _, _)

\* PropertySheet.getProperty(propertyKey, default) of the sheet at position
\* i: the value stored, the parent's answer if that is None and there is a
\* parent, and the default if the result is None
getProperty(i, propertyKey, default) ==
    LET own == Stored(sheets[i], propertyKey)
        val == IF PyEq(own, NONE) /\ sheets[i]._parent # NONE
               THEN getProperty(sheets[i]._parent.n, propertyKey, default)
               ELSE own
    IN IF ~PyEq(val, NONE) THEN val ELSE default

\* PropertySheet.__init__(parent, properties, immutable): the fields are set,
\* clearSheet is called, and the properties are merged if there are any
PropertySheetNew(parent, properties, immutable) ==
    LET blank == [_parent |-> parent, _immutable |-> immutable, _properties |-> <<>>]
        cleared == clearSheet(blank)
    IN IF cleared.exc # "none"
       THEN cleared
       ELSE IF properties.t = "PropertySheet" \/ Truthy(properties)
       THEN mergeProperties(cleared.sheet, properties)
       ELSE cleared

\* the references to the sheets constructed so far
SheetRefs == {SheetRef(i) : i \in 1..Len(sheets)}

\* a call on a sheet, for the record of the last call
SheetCall(op, self, args, r) ==
    [op |-> op, self |-> self, args |-> args, exc |-> r.exc, ret |-> r.ret]

SheetInit ==
    /\ sheets = <<>>
    /\ sheetCall = NONE

\* PropertySheet(parent, properties, immutable): the new sheet exists if the
\* constructor raises nothing.  The first sheet is given no parent, and every
\* other one the sheet constructed before it.
NewPropertySheet ==
    \E parent \in IF sheets = <<>> THEN {NONE} ELSE {SheetRef(Len(sheets))},
       properties \in {NONE, PyInt(1)} \cup PropertyDicts \cup SheetRefs,
       immutable \in BOOLEAN :
        /\ Len(sheets) < MaxSheets
        /\ LET r == PropertySheetNew(parent, properties, immutable)
           IN /\ sheets' = IF r.exc = "none" THEN Append(sheets, r.sheet) ELSE sheets
              /\ sheetCall' = SheetCall("__init__", Len(sheets) + 1,
                                        <<parent, properties, PyBool(immutable)>>, r)
        /\ UNCHANGED <<earlierVars, typeIdVars, tagVars, factoryVars, sharedVars>>

forceImmutableCall ==
    \E i \in 1..Len(sheets) :
        /\ LET r == forceImmutable(sheets[i])
           IN /\ sheets' = [sheets EXCEPT ![i] = r.sheet]
              /\ sheetCall' = SheetCall("forceImmutable", i, <<>>, r)
        /\ UNCHANGED <<earlierVars, typeIdVars, tagVars, factoryVars, sharedVars>>

isImmutableCall ==
    \E i \in 1..Len(sheets) :
        /\ LET r == isImmutable(sheets[i])
           IN /\ sheets' = [sheets EXCEPT ![i] = r.sheet]
              /\ sheetCall' = SheetCall("isImmutable", i, <<>>, r)
        /\ UNCHANGED <<earlierVars, typeIdVars, tagVars, factoryVars, sharedVars>>

mergePropertiesCall ==
    \E i \in 1..Len(sheets),
       properties \in {PyInt(1)} \cup PropertyDicts \cup SheetRefs :
        /\ LET r == mergeProperties(sheets[i], properties)
           IN /\ sheets' = [sheets EXCEPT ![i] = r.sheet]
              /\ sheetCall' = SheetCall("mergeProperties", i, <<properties>>, r)
        /\ UNCHANGED <<earlierVars, typeIdVars, tagVars, factoryVars, sharedVars>>

clearSheetCall ==
    \E i \in 1..Len(sheets) :
        /\ LET r == clearSheet(sheets[i])
           IN /\ sheets' = [sheets EXCEPT ![i] = r.sheet]
              /\ sheetCall' = SheetCall("clearSheet", i, <<>>, r)
        /\ UNCHANGED <<earlierVars, typeIdVars, tagVars, factoryVars, sharedVars>>

getPropertyCall ==
    \E i \in 1..Len(sheets), propertyKey \in PropertyKeys, default \in PropertyDefaults :
        /\ sheetCall' = [op |-> "getProperty", self |-> i,
                         args |-> <<propertyKey, default>>, exc |-> "none",
                         ret |-> getProperty(i, propertyKey, default)]
        /\ UNCHANGED sheets
        /\ UNCHANGED <<earlierVars, typeIdVars, tagVars, factoryVars, sharedVars>>

setPropertyCall ==
    \E i \in 1..Len(sheets), propertyKey \in PropertyKeys,
       propertyValue \in PropertyValues, default \in PropertyDefaults :
        /\ LET r == setProperty(sheets[i], propertyKey, propertyValue, default)
           IN /\ sheets' = [sheets EXCEPT ![i] = r.sheet]
              /\ sheetCall' = SheetCall("setProperty", i,
                                        <<propertyKey, propertyValue, default>>, r)
        /\ UNCHANGED <<earlierVars, typeIdVars, tagVars, factoryVars, sharedVars>>

clearPropertyCall ==
    \E i \in 1..Len(sheets), propertyKey \in {PyStr("a")} :
        /\ LET r == clearProperty(sheets[i], propertyKey)
           IN /\ sheets' = [sheets EXCEPT ![i] = r.sheet]
              /\ sheetCall' = SheetCall("clearProperty", i, <<propertyKey>>, r)
        /\ UNCHANGED <<earlierVars, typeIdVars, tagVars, factoryVars, sharedVars>>

(***************************************************************************)
(* Two callers of one DictWriter.  The writer holds no lock, so the calls  *)
(* of the two callers reach it in any order; a call is taken as one step.  *)
(* Each caller writes one pair: writePairStart(name), then a value write;  *)
(* an exception ends the caller's sequence.                                *)
(***************************************************************************)

\* what a caller has to write: the name of its pair, and the value write
WritePlans ==
    {[name |-> name, op |-> w[1], value |-> w[2]] :
        name \in Names \ {PyStr("")},
        w \in {<<"writeNullValue", NONE>>, <<"writeBoolValue", PyBool(TRUE)>>,
               <<"writeIntValue", PyInt(1)>>, <<"writeStringValue", PyStr("a")>>}}

\* a call of the history with the caller that made it (0: the owner of the
\* writer, who opens the dictionary before the callers start)
CallBy(caller, op, arg, exc) == [caller |-> caller] @@ Call(op, arg, exc)

\* two callers with different names and different values
SharedWriterInit ==
    /\ callers \in {cs \in [1..2 -> WritePlans] :
                        cs[1].name # cs[2].name /\ cs[1].value # cs[2].value}
    /\ callerPc = [c \in 1..2 |-> "writePairStart"]

\* the owner's writeDictionaryStart() before the callers start
ownerWriteDictionaryStart ==
    /\ calls = <<>>
    /\ raised' = "none"
    /\ calls' = Append(calls, CallBy(0, "writeDictionaryStart", NONE, "none"))
    /\ UNCHANGED <<_dict, _collectionStack, _list, _keyName, _closed>>
    /\ UNCHANGED <<callers, callerPc>>
    /\ UNCHANGED <<readerVars, callbackVars, classifyVars, typeIdVars, tagVars,
                   factoryVars, sheetVars>>

\* a caller's writePairStart(name)
callerWritePairStart ==
    \E c \in 1..2 :
        /\ calls # <<>>
        /\ callerPc[c] = "writePairStart"
        /\ LET exc == IF Truthy(_keyName) THEN "InvalidKeyError" ELSE "none"
           IN /\ raised' = exc
              /\ calls' = Append(calls, CallBy(c, "writePairStart", callers[c].name, exc))
              /\ _keyName' = IF exc = "none" THEN callers[c].name ELSE _keyName
              /\ callerPc' = [callerPc EXCEPT ![c] = IF exc = "none" THEN "writeValue"
                                                     ELSE "failed"]
        /\ UNCHANGED <<_dict, _collectionStack, _list, _closed>>
        /\ UNCHANGED callers
        /\ UNCHANGED <<readerVars, callbackVars, classifyVars, typeIdVars, tagVars,
                       factoryVars, sheetVars>>

\* a caller's value write (the value is of the method's type)
callerWriteValue ==
    \E c \in 1..2 :
        /\ callerPc[c] = "writeValue"
        /\ LET r == _writeValue(callers[c].value)
           IN /\ _list' = r.list
              /\ _dict' = r.dict
              /\ _keyName' = r.keyName
              /\ raised' = r.exc
              /\ calls' = Append(calls, CallBy(c, callers[c].op, callers[c].value, r.exc))
              /\ callerPc' = [callerPc EXCEPT ![c] = IF r.exc = "none" THEN "done"
                                                     ELSE "failed"]
        /\ UNCHANGED <<_collectionStack, _closed>>
        /\ UNCHANGED callers
        /\ UNCHANGED <<readerVars, callbackVars, classifyVars, typeIdVars, tagVars,
                       factoryVars, sheetVars>>

(***************************************************************************)
(* The components at rest, while another one's specification runs.         *)

TypeIdIdle == idChecked = NONE

TagIdle ==
    /\ tagArgs = NONE
    /\ tag = NONE
    /\ tagStr = NONE
    /\ tagDateString = NONE
    /\ reparsed = NONE

FactoryIdle ==
    /\ pc = "idle"
    /\ collaborators = NONE
    /\ factoryCalls = <<>>
    /\ outcome = NONE

EarlierIdle == DictWriterInit /\ ReaderIdle /\ CallbacksIdle /\ ClassifyIdle
SheetIdle ==
    /\ sheets = <<>>
    /\ sheetCall = NONE

SharedIdle ==
    /\ callers = <<>>
    /\ callerPc = <<>>

LaterIdle == TypeIdIdle /\ TagIdle /\ FactoryIdle /\ SheetIdle /\ SharedIdle

---------------------------------------------------------------------------
(* The writer's specification: a fresh DictWriter and any calls on it.     *)

InitWriter ==
    /\ DictWriterInit
    /\ ReaderIdle
    /\ CallbacksIdle
    /\ ClassifyIdle
    /\ LaterIdle

NextWriter ==
    \/ writeNullValue
    \/ writeBoolValue
    \/ writeIntValue
    \/ writeStringValue
    \/ writePairStart
    \/ writeListStart
    \/ writeDictionaryStart
    \/ writePackableStart
    \/ writeEnd
    \/ close

SpecWriter == InitWriter /\ [][NextWriter]_vars

---------------------------------------------------------------------------
(* The ChildReader's specification: a ChildReader over any parent stream   *)
(* and first element, and any number of calls of next on it.               *)

InitChildReader ==
    /\ DictWriterInit
    /\ ChildReaderInit
    /\ CallbacksIdle
    /\ ClassifyIdle
    /\ LaterIdle

NextChildReader == __next__

SpecChildReader == InitChildReader /\ [][NextChildReader]_vars

---------------------------------------------------------------------------
(* readWithCallbacks' specification: one call, over any token stream of at *)
(* most MaxStream tokens and any behaviour of the callbacks.               *)

InitCallbacks ==
    /\ DictWriterInit
    /\ ReaderIdle
    /\ readWithCallbacksInit
    /\ ClassifyIdle
    /\ LaterIdle

NextCallbacks ==
    \/ onEnd
    \/ onPairStart
    \/ onListStart
    \/ onDictionaryStart
    \/ onPackableStart
    \/ onValue
    \/ readWithCallbacksReturn

SpecCallbacks == InitCallbacks /\ [][NextCallbacks]_vars

---------------------------------------------------------------------------
(* The classification's specification: any value, and calls of             *)
(* getBaseTypeId and isBaseType on it.                                     *)

InitClassify ==
    /\ DictWriterInit
    /\ ReaderIdle
    /\ CallbacksIdle
    /\ ClassifyInit
    /\ LaterIdle

NextClassify ==
    \/ getBaseTypeIdCall
    \/ isBaseTypeCall

SpecClassify == InitClassify /\ [][NextClassify]_vars

---------------------------------------------------------------------------
(* The category predicates' specification: any call of any of the six on   *)
(* any member of BaseTypeIds.                                              *)

InitTypeIds ==
    EarlierIdle /\ TypeIdInit /\ TagIdle /\ FactoryIdle /\ SheetIdle /\ SharedIdle

NextTypeIds ==
    \/ isValueTypeIdCall
    \/ isStorageTypeIdCall
    \/ isStructureTypeIdCall
    \/ isCollectionTypeIdCall
    \/ isPackableTypeIdCall
    \/ isEndTypeIdCall

SpecTypeIds == InitTypeIds /\ [][NextTypeIds]_vars

---------------------------------------------------------------------------
(* Tag's specification: one Tag constructed from any of the model's calls, *)
(* its str() and dateString(), and the Tag constructed from its str().     *)

InitTag ==
    EarlierIdle /\ TypeIdIdle /\ TagInit /\ FactoryIdle /\ SheetIdle /\ SharedIdle

NextTag ==
    \/ NewTag
    \/ StrTag
    \/ DateStringTag
    \/ ReparseTag

SpecTag == InitTag /\ [][NextTag]_vars

---------------------------------------------------------------------------
(* makePackable's specification: one call, with any reader, makeObject and *)
(* unpack.                                                                 *)

InitFactory ==
    EarlierIdle /\ TypeIdIdle /\ TagIdle /\ makePackableInit /\ SheetIdle /\ SharedIdle

NextFactory ==
    \/ getStateId
    \/ makeObject
    \/ unpack
    \/ makePackableReturn

SpecFactory == InitFactory /\ [][NextFactory]_vars

---------------------------------------------------------------------------
(* Two callers of one fresh DictWriter, their calls in any order.          *)
InitShared ==
    /\ DictWriterInit /\ ReaderIdle /\ CallbacksIdle /\ ClassifyIdle
    /\ TypeIdIdle /\ TagIdle /\ FactoryIdle /\ SheetIdle
    /\ SharedWriterInit

NextShared ==
    \/ ownerWriteDictionaryStart
    \/ callerWritePairStart
    \/ callerWriteValue

SpecShared == InitShared /\ [][NextShared]_vars

(* PropertySheet's specification: sheets constructed one over the other,   *)
(* and any calls on them.                                                  *)
InitSheets ==
    EarlierIdle /\ TypeIdIdle /\ TagIdle /\ FactoryIdle /\ SheetInit /\ SharedIdle

NextSheets ==
    \/ NewPropertySheet
    \/ forceImmutableCall
    \/ isImmutableCall
    \/ mergePropertiesCall
    \/ clearSheetCall
    \/ getPropertyCall
    \/ setPropertyCall
    \/ clearPropertyCall

SpecSheets == InitSheets /\ [][NextSheets]_vars

(* checkBaseType beside getBaseTypeId and isBaseType on one value           *)
InitAgree ==
    /\ ClassifyInit
    /\ DictWriterInit /\ ReaderIdle /\ CallbacksIdle
    /\ LaterIdle

NextAgree ==
    \/ getBaseTypeIdCall
    \/ isBaseTypeCall
    \/ checkBaseTypeCall

SpecAgree == InitAgree /\ [][NextAgree]_vars

(* The loops of isBaseTypeList and isBaseTypeDict on one value             *)
InitLoops ==
    /\ ClassifyInit
    /\ DictWriterInit /\ ReaderIdle /\ CallbacksIdle
    /\ LaterIdle

NextLoops ==
    \/ isBaseTypeListCall
    \/ isBaseTypeDictCall

SpecLoops == InitLoops /\ [][NextLoops]_vars

(***************************************************************************)
(* The protocol grammar, read over the history of writer calls.  The       *)
(* claims speak of well-formed call sequences, of the scopes the caller    *)
(* has opened and of the pair name the caller has started; these           *)
(* definitions compute them from `calls`, independently of the writer's    *)
(* own fields.                                                             *)

ValueOps == {"writeNullValue", "writeBoolValue", "writeIntValue", "writeStringValue"}
StartOps == {"writeListStart", "writeDictionaryStart", "writePackableStart"}

KindOf(op) ==
    CASE op = "writeListStart" -> "list"
      [] op = "writeDictionaryStart" -> "dict"
      [] op = "writePackableStart" -> "packable"

\* the argument of a value write is of the type its method writes
TypeOk(c) ==
    CASE c.op = "writeNullValue" -> TRUE
      [] c.op = "writeBoolValue" -> c.arg.t = "bool"
      [] c.op = "writeIntValue" -> c.arg.t = "int"
      [] c.op = "writeStringValue" -> c.arg.t = "str"

\* a pair name is a non-empty string
NameOk(name) == name.t = "str" /\ name.s # ""

GrammarStart == [ok |-> TRUE, stack |-> <<>>, pending |-> NONE, done |-> FALSE]

Top(stack) == stack[Len(stack)]

\* where a value (a plain value or a scope start) may stand: as a member of
\* a list, or as the value of a started pair
ValuePlace(g) ==
    /\ g.stack # <<>>
    /\ \/ Top(g.stack).kind = "list" /\ g.pending = NONE
       \/ Top(g.stack).kind \in {"dict", "packable"} /\ g.pending # NONE

\* whether call c is legal in grammar state g
Legal(g, c) ==
    /\ ~g.done
    /\ CASE c.op \in ValueOps -> ValuePlace(g) /\ TypeOk(c)
         [] c.op \in StartOps -> g.stack = <<>> \/ ValuePlace(g)
         [] c.op = "writePairStart" ->
               /\ g.stack # <<>>
               /\ Top(g.stack).kind \in {"dict", "packable"}
               /\ g.pending = NONE
               /\ NameOk(c.arg)
         [] c.op = "writeEnd" -> g.stack # <<>> /\ g.pending = NONE
         [] c.op = "close" -> g.stack = <<>>

\* the grammar state after a legal call c
After(g, c) ==
    CASE c.op \in ValueOps -> [g EXCEPT !.pending = NONE]
      [] c.op \in StartOps ->
            [g EXCEPT !.stack = Append(g.stack, [kind |-> KindOf(c.op), key |-> g.pending]),
                      !.pending = NONE]
      [] c.op = "writePairStart" -> [g EXCEPT !.pending = c.arg]
      [] c.op = "writeEnd" -> [g EXCEPT !.stack = SubSeq(g.stack, 1, Len(g.stack) - 1)]
      [] c.op = "close" -> [g EXCEPT !.done = TRUE]

\* the grammar state after the calls of log; ok is FALSE from the first
\* call that is not legal
RECURSIVE Grammar(_)
Grammar(log) ==
    IF log = <<>>
    THEN GrammarStart
    ELSE LET g == Grammar(SubSeq(log, 1, Len(log) - 1))
             c == log[Len(log)]
         IN IF g.ok /\ Legal(g, c) THEN After(g, c) ELSE [g EXCEPT !.ok = FALSE]

\* the calls of log that returned without raising
Accepted(log) == SelectSeq(log, LAMBDA c : c.exc = "none")

Starts(log) == Len(SelectSeq(Accepted(log), LAMBDA c : c.op \in StartOps))
Ends(log) == Len(SelectSeq(Accepted(log), LAMBDA c : c.op = "writeEnd"))

\* the number of scopes the accepted calls of log leave open
RECURSIVE Depth(_)
Depth(log) ==
    IF log = <<>>
    THEN 0
    ELSE LET d == Depth(SubSeq(log, 1, Len(log) - 1))
             c == log[Len(log)]
         IN IF c.exc # "none" THEN d
            ELSE IF c.op \in StartOps THEN d + 1
            ELSE IF c.op = "writeEnd" /\ d > 0 THEN d - 1
            ELSE d

\* the index in log of the accepted writePairStart whose value has not been
\* written since (no accepted value write or scope start follows it); 0 if none
PendingPair(log) ==
    LET S == {i \in 1..Len(log) :
                 /\ log[i].op = "writePairStart"
                 /\ log[i].exc = "none"
                 /\ \A j \in (i + 1)..Len(log) :
                       ~(log[j].exc = "none" /\ log[j].op \in ValueOps \cup StartOps)}
    IN IF S = {} THEN 0 ELSE CHOOSE i \in S : \A j \in S : i <= j

\* a writer call has just been made; Made is that call
Stepped == Len(calls') = Len(calls) + 1
Made == calls'[Len(calls')]

\* the writer's own view of its scopes
WriterDepth == Len(_collectionStack)
WriterCurrent ==
    IF _list # NONE THEN "list" ELSE IF _dict # NONE THEN "dict" ELSE "none"
WriterFields == <<_dict, _collectionStack, _list, _keyName, _closed>>

\* the kind of Python collection a scope is written as
WrittenAs(kind) == IF kind = "list" THEN "list" ELSE "dict"

\* dictionary d holds value v under key k / holds something under key k
DictHas(d, k, v) == d.t = "dict" /\ \E i \in 1..Len(d.items) : d.items[i] = <<k, v>>
DictHasKey(d, k) == d.t = "dict" /\ \E i \in 1..Len(d.items) : d.items[i][1] = k

---------------------------------------------------------------------------
(* Claims                                                                  *)

StackDiscipline ==
    LET g == Grammar(calls)
    IN (/\ g.ok
        /\ g.stack # <<>>
        /\ \E i \in 1..Len(calls) : calls[i].op = "writeEnd")
       => WriterCurrent = WrittenAs(Top(g.stack).kind)

\* the case of C3: a value write of a value of its method's type, made while
\* no scope is open and no pair name is pending
ValueWriteOutside ==
    /\ Stepped
    /\ Made.op \in ValueOps
    /\ TypeOk(Made)
    /\ Depth(calls) = 0
    /\ WriterDepth = 0 /\ WriterCurrent = "none"
    /\ ~Truthy(_keyName)

\* C3 as stated: a value write while no scope is open and no pair name is
\* pending fails with NotInACollectionError and leaves the writer as it was.
ValueWriteOutsideFails ==
    [][ValueWriteOutside =>
          /\ raised' = "NotInACollectionError"
          /\ UNCHANGED WriterFields]_vars

\* C3 as amended: the same, on a writer that has not been closed.
OpenValueWriteOutsideFails ==
    [][(ValueWriteOutside /\ ~_closed) =>
          /\ raised' = "NotInACollectionError"
          /\ UNCHANGED WriterFields]_vars

\* C3's case has happened: the last call was such a value write, on a writer
\* that was not closed, with no scope open and no name pending before it.
ValueWriteOutsideSeen ==
    /\ calls # <<>>
    /\ calls[Len(calls)].op = "writeIntValue"
    /\ calls[Len(calls)].arg = PyInt(1)
    /\ Depth(SubSeq(calls, 1, Len(calls) - 1)) = 0
    /\ \A i \in 1..Len(calls) : calls[i].op \notin {"close", "writePairStart"}
    /\ raised = "NotInACollectionError"

\* C4: pairs cannot nest.  A writePairStart made while the value of an earlier
\* writePairStart(name1) has not been written fails with InvalidKeyError, and
\* the pending name is still name1.
PairsCannotNest ==
    [][(Stepped /\ Made.op = "writePairStart" /\ PendingPair(calls) # 0) =>
          /\ raised' = "InvalidKeyError"
          /\ _keyName' = calls[PendingPair(calls)].arg]_vars

\* C5: a writeEnd made while no scope is open is rejected at the call and
\* leaves the writer as it was.
EndWithoutScopeRejected ==
    [][(Stepped /\ Made.op = "writeEnd" /\ Depth(calls) = 0 /\ WriterDepth = 0) =>
          /\ raised' # "none"
          /\ UNCHANGED WriterFields]_vars

\* a value write that keeps a well-formed sequence well-formed, made with
\* scope kind `kind` open and a pair name pending or not
ValueWriteIn(kind, pending) ==
    /\ Stepped
    /\ Made.op \in ValueOps
    /\ TypeOk(Made)
    /\ Grammar(calls).ok
    /\ ~Grammar(calls).done
    /\ Grammar(calls).stack # <<>>
    /\ Top(Grammar(calls).stack).kind = kind
    /\ (Grammar(calls).pending # NONE) = pending

\* C6: a pair takes exactly one value.  After writePairStart(name) in an open
\* dictionary, the next value write returns, stores the value under name in
\* the current dictionary and clears the pending name.
PairTakesOneValue ==
    [][ValueWriteIn("dict", TRUE) =>
          /\ raised' = "none"
          /\ _keyName' = NONE
          /\ DictHas(_dict', Grammar(calls).pending, Made.arg)]_vars

\* C7: in an open dictionary a value write with no pair name pending fails
\* with InvalidKeyError and adds nothing to the dictionary.
DictionaryRequiresPair ==
    [][ValueWriteIn("dict", FALSE) =>
          /\ raised' = "InvalidKeyError"
          /\ _dict' = _dict]_vars

\* C8: in an open list every value write returns and appends its value as the
\* last member of the list, the first write into an empty list included.
ListAppendsInOrder ==
    [][ValueWriteIn("list", FALSE) =>
          /\ raised' = "none"
          /\ _list'.t = "list"
          /\ _list'.items = Append(IF _list.t = "list" THEN _list.items ELSE <<>>, Made.arg)
          /\ _keyName' = _keyName]_vars

\* C9: a scope started as the value of writePairStart(name) completes the pair
\* when its own writeEnd closes it: that writeEnd returns, the enclosing
\* dictionary then holds a value under name, and no name is left pending.
NestedScopeCompletesPair ==
    [][(/\ Stepped
        /\ Made.op = "writeEnd"
        /\ Grammar(calls).ok
        /\ Grammar(calls').ok
        /\ Top(Grammar(calls).stack).key # NONE) =>
          /\ raised' = "none"
          /\ DictHasKey(_dict', Top(Grammar(calls).stack).key)
          /\ _keyName' = NONE]_vars

\* the element of stream at which the scope opened before it closes: the
\* position of the END that brings the depth, 1 at the start, to 0; the length
\* of the stream if there is none
RECURSIVE MatchingEnd(_, _, _)
MatchingEnd(stream, i, depth) ==
    IF i > Len(stream) THEN Len(stream)
    ELSE IF stream[i].id = END
         THEN IF depth = 1 THEN i ELSE MatchingEnd(stream, i + 1, depth - 1)
         ELSE IF stream[i].id \in ScopeIds
              THEN MatchingEnd(stream, i + 1, depth + 1)
              ELSE MatchingEnd(stream, i + 1, depth)

IsPrefix(a, b) == Len(a) <= Len(b) /\ SubSeq(b, 1, Len(a)) = a

\* C10: a ChildReader whose first element opens a scope yields that element
\* and then the parent's elements up to and including the END matching the
\* scope, and reads nothing from the parent after that END.
ChildReaderOverScope ==
    (firstElem # NONE /\ firstElem.id \in ScopeIds) =>
        LET m == MatchingEnd(_parentReader, 1, 1)
        IN /\ IsPrefix(yielded, <<firstElem>> \o SubSeq(_parentReader, 1, m))
           /\ parentPos <= m

\* C11: a ChildReader whose first element is a plain value (no collection,
\* packable or pair) yields that one element and nothing else, and never asks
\* the parent: the parent's position stays where it was.
ChildReaderOverValue ==
    (firstElem # NONE /\ firstElem.id \notin ScopeIds \cup {"PAIR"}) =>
        /\ IsPrefix(yielded, <<firstElem>>)
        /\ parentPos = 0

\* The value a well-formed sequence of writer calls describes: the open
\* collections built so far, the pair name started, and the first top-level
\* collection completed (NONE while there is none).
BuildStart == [stack |-> <<>>, pending |-> NONE, result |-> NONE]

\* collection c with value v added: appended to a list, stored under key in a
\* dictionary (replacing the value the key had)
Put(c, key, v) ==
    IF c.t = "list"
    THEN PyList(Append(c.items, v))
    ELSE IF \E i \in 1..Len(c.items) : c.items[i][1] = key
         THEN PyDict([i \in 1..Len(c.items) |->
                         IF c.items[i][1] = key THEN <<key, v>> ELSE c.items[i]])
         ELSE PyDict(Append(c.items, <<key, v>>))

PutTop(stack, key, v) ==
    [stack EXCEPT ![Len(stack)].val = Put(stack[Len(stack)].val, key, v)]

BuildStep(b, c) ==
    CASE c.op \in ValueOps ->
            [b EXCEPT !.stack = PutTop(b.stack, b.pending, c.arg), !.pending = NONE]
      [] c.op \in StartOps ->
            [b EXCEPT !.stack = Append(b.stack,
                                       [val |-> IF c.op = "writeListStart"
                                                THEN PyList(<<>>) ELSE PyDict(<<>>),
                                        key |-> b.pending]),
                      !.pending = NONE]
      [] c.op = "writePairStart" -> [b EXCEPT !.pending = c.arg]
      [] c.op = "writeEnd" ->
            LET done == b.stack[Len(b.stack)]
                rest == SubSeq(b.stack, 1, Len(b.stack) - 1)
            IN IF rest = <<>>
               THEN [b EXCEPT !.stack = rest,
                              !.result = IF b.result = NONE THEN done.val ELSE b.result]
               ELSE [b EXCEPT !.stack = PutTop(rest, done.key, done.val)]
      [] c.op = "close" -> b

RECURSIVE Built(_)
Built(log) ==
    IF log = <<>> THEN BuildStart
    ELSE BuildStep(Built(SubSeq(log, 1, Len(log) - 1)), log[Len(log)])

\* C13: value round-trip.  When a well-formed sequence of writes of a
\* dictionary (of plain values, lists and dictionaries) is complete, getDict()
\* returns the dictionary those writes built.
RoundTrip ==
    (/\ Grammar(calls).ok
     /\ calls # <<>>
     /\ calls[1].op = "writeDictionaryStart"
     /\ \A i \in 1..Len(calls) : calls[i].op # "writePackableStart"
     /\ Built(calls).result # NONE)
    => getDict = Built(calls).result

\* C14: a failed write leaves the writer usable.  A writer call that raises
\* leaves the open scopes, the pending pair name and everything written as
\* they were, so the calls that follow find the writer as if the failed call
\* had not been made.
FailedWriteChangesNothing ==
    [][(Stepped /\ raised' # "none") => UNCHANGED WriterFields]_vars

\* C14's case has happened: with the pair name "a" pending, writeIntValue of
\* a string was rejected with InvalidTypeError, and "a" is still pending.
FailedWriteWithNamePending ==
    /\ Len(calls) >= 2
    /\ calls[Len(calls) - 1] = Call("writePairStart", PyStr("a"), "none")
    /\ calls[Len(calls)] = Call("writeIntValue", PyStr("a"), "InvalidTypeError")
    /\ _keyName = PyStr("a")

TypedOps == {"writeBoolValue", "writeIntValue", "writeStringValue"}

ClosedWriterFails ==
    [][(Stepped /\ _closed) =>
          /\ UNCHANGED WriterFields
          /\ (Made.op = "close") = (raised' = "none")]_vars

\* the callback readWithCallbacks is to call for a token
CallbackFor(e) ==
    CASE e.id = END -> "onEnd"
      [] e.id = "PAIR" -> "onPairStart"
      [] e.id = "LIST" -> "onListStart"
      [] e.id = "DICTIONARY" -> "onDictionaryStart"
      [] e.id = "PACKABLE" -> "onPackableStart"
      [] OTHER -> "onValue"

\* the k-th callback called returned, and what it returned is not true
ReturnedFalse(k) == ~dispatched[k].out.exc /\ ~Truthy(dispatched[k].out.ret)

\* C12: early abort.  The callbacks are called one per token, in the order of
\* the stream; if the callback called for the k-th token returns false, it
\* is the last one called (exactly k have been called), and readWithCallbacks
\* returns False: it neither goes on nor raises.
EarlyAbort ==
    /\ Len(dispatched) = readerPos
    /\ \A j \in 1..Len(dispatched) : dispatched[j].callback = CallbackFor(reader[j])
    /\ \A k \in 1..Len(dispatched) :
          ReturnedFalse(k) => Len(dispatched) = k /\ returned = "False"

\* C12's case has happened: the callback for the second of three tokens
\* returned false, and the call has returned False with the third token unread.
AbortedAtSecondToken ==
    /\ Len(reader) = 3
    /\ Len(dispatched) = 2
    /\ dispatched[2].out = [exc |-> FALSE, ret |-> PyBool(FALSE)]
    /\ returned = "False"

\* The running depth after a token stream: a collection or packable start is
\* one deeper, an END one shallower; -1 once an END has come at depth 0.
RECURSIVE RunningDepth(_)
RunningDepth(stream) ==
    IF stream = <<>> THEN 0
    ELSE LET d == RunningDepth(SubSeq(stream, 1, Len(stream) - 1))
             e == stream[Len(stream)]
         IN IF d < 0 THEN d
            ELSE IF e.id \in ScopeIds THEN d + 1
            ELSE IF e.id = END THEN d - 1
            ELSE d

\* C18: readWithCallbacks does not report success for an unbalanced stream:
\* when it returns True, no END came at depth 0 and no scope was left open at
\* the end of the stream.
UnbalancedStreamNotSuccess ==
    returned = "True" => RunningDepth(reader) = 0

FirstAcceptorWins ==
    \A n \in 1..Len(ids) :
        LET o == ids[n]
        IN /\ o.exc = "none" =>
                \E i \in 1..Len(_baseTypeCheckersKeys) :
                    /\ _baseTypeCheckersKeys[i] = o.ret
                    /\ _baseTypeCheckers(_baseTypeCheckersKeys[i], pyVal)
                    /\ \A j \in 1..(i - 1) :
                          ~_baseTypeCheckers(_baseTypeCheckersKeys[j], pyVal)
           /\ o.exc # "none" =>
                \A i \in 1..Len(_baseTypeCheckersKeys) :
                    ~_baseTypeCheckers(_baseTypeCheckersKeys[i], pyVal)
           /\ pyVal.t = "bool" => o = Returned("BOOL")
           /\ pyVal.t = "int" => o = Returned("INT")
           /\ pyVal.t = "str" => o = Returned("STRING")
           /\ pyVal \in {PyList(<<>>), PyTuple(<<>>)} => o = Returned("LIST")

\* C20's case has happened: the tuple ("a", 1), which the PAIR checker and
\* the LIST checker both accept, was classified, as PAIR.
TupleClassifiedAsPair ==
    /\ pyVal = PyTuple(<<PyStr("a"), PyInt(1)>>)
    /\ _baseTypeCheckers("LIST", pyVal)
    /\ ids # <<>>
    /\ ids[1] = Returned("PAIR")

\* the Python types whose values are base types by themselves
PlainBaseTypes == {"none", "bool", "int", "float", "datetime", "str", "Tag", "Packable"}

\* A value is sound when it is a plain base type, or a list or tuple whose
\* members are all sound, or a dictionary whose keys are all strings and
\* whose values are all sound: no non-string key and no non-base-type member
\* anywhere inside it.
RECURSIVE Sound(_)
Sound(v) ==
    CASE v.t \in {"list", "tuple"} -> \A i \in 1..Len(v.items) : Sound(v.items[i])
      [] v.t = "dict" ->
            \A i \in 1..Len(v.items) :
                v.items[i][1].t = "str" /\ Sound(v.items[i][2])
      [] OTHER -> v.t \in PlainBaseTypes

Collections == {"list", "tuple", "dict"}

IsPair(v) ==
    /\ v.t = "tuple"
    /\ Len(v.items) = 2
    /\ v.items[1].t = "str"
    /\ Sound(v.items[2])

\* C22: pairs do not nest.  A 2-tuple whose second member is itself a Pair is
\* never a Pair: isBaseTypePair is false for it and getBaseTypeId never
\* returns PAIR for it.
PairNeverHoldsPair ==
    (pyVal.t = "tuple" /\ Len(pyVal.items) = 2 /\ IsPair(pyVal.items[2])) =>
        /\ ~isBaseTypePair(pyVal)
        /\ \A n \in 1..Len(ids) : ids[n] # Returned("PAIR")

\* C23: a dictionary entry cannot carry a Pair as its value.  For a
\* dictionary in which some key maps to a Pair, isBaseTypeDict is false and
\* every call of isBaseType returns false.
DictNeverHoldsPair ==
    (pyVal.t = "dict" /\ \E i \in 1..Len(pyVal.items) : IsPair(pyVal.items[i][2])) =>
        /\ ~isBaseTypeDict(pyVal)
        /\ \A n \in 1..Len(checks) : checks[n] = Returned(FALSE)

\* the categories of the ids
Category ==
    [isValueTypeId |-> {"NULL", "BOOL", "INT", "FLOAT", "DATETIME"},
     isStorageTypeId |-> {"STRING", "URN", "TAG", "BLOB"},
     isStructureTypeId |-> {"PAIR", "COLOR", "GEOLOCATION", "PREDICATE"},
     isCollectionTypeId |-> {"LIST", "DICTIONARY"},
     isPackableTypeId |-> {"PACKABLE"},
     isEndTypeId |-> {END}]

\* C24: the category predicates partition the ids.  A category predicate
\* called on a member of BaseTypeIds does not raise, and returns true exactly
\* for the ids of its category (Value, Storage, Structure, Collection,
\* Packable, End), which are disjoint and cover BaseTypeIds.
CategoriesPartition ==
    /\ \A id \in BaseTypeIds : \E f \in DOMAIN Category : id \in Category[f]
    /\ \A f, g \in DOMAIN Category : f # g => Category[f] \cap Category[g] = {}
    /\ idChecked # NONE =>
          idChecked.out = Returned(idChecked.id \in Category[idChecked.fn])

\* the four fields of a Tag
TagFields(t) == <<t.authority, t.date, t.specific, t.fragment>>

\* C25: Tag round-trip.  For every Tag that was constructed, constructing a
\* Tag from its str() succeeds and gives the same authority, date, specific
\* and fragment.
TagRoundTrip ==
    reparsed # NONE => reparsed.exc = "none" /\ TagFields(reparsed) = TagFields(tag)

\* C26: dateString emits the shortest date form: the year alone when day and
\* month are 1, year-month when the day is 1, year-month-day otherwise; the
\* numbers are those of the date and are written without a leading zero.  A
\* tag parsed from the date text 2019-4 has the date string 2019-4, one from
\* 2019-4-28 has 2019-4-28.
DateStringShortest ==
    tagDateString # NONE =>
        LET fields == split(tagDateString.s, "-")
            date == <<tag.date.y, tag.date.m, tag.date.d>>
        IN /\ Len(fields) = IF tag.date.d # 1 THEN 3 ELSE IF tag.date.m # 1 THEN 2 ELSE 1
           /\ \A i \in 1..Len(fields) :
                 /\ fields[i] # <<>>
                 /\ digits(fields[i])
                 /\ int(fields[i]) = date[i]
                 /\ fields[i][1] # "0"
           /\ tagArgs = TagCall(PyStr(<<"t", "a", "g", ":", "a", ",", "2", "0", "1", "9", "-", "4", ":", "x">>), NONE, NONE, NONE, NONE)
                 => tagDateString = PyStr(<<"2", "0", "1", "9", "-", "4">>)
           /\ tagArgs = TagCall(PyStr(<<"t", "a", "g", ":", "a", ",", "2", "0", "1", "9", "-", "4", "-", "2", "8", ":", "x">>), NONE, NONE, NONE, NONE)
                 => tagDateString = PyStr(<<"2", "0", "1", "9", "-", "4", "-", "2", "8">>)

\* C26's case has happened: a tag parsed from the date text 2019-04 gave the
\* date string 2019-4.
PaddedMonthShortened ==
    /\ tagArgs = TagCall(PyStr(<<"t", "a", "g", ":", "a", ",", "2", "0", "1", "9", "-", "0", "4", ":", "x">>), NONE, NONE, NONE, NONE)
    /\ tagDateString = PyStr(<<"2", "0", "1", "9", "-", "4">>)

\* a constructor call that gives the tag URI and nothing else
FromUriAlone ==
    /\ tagArgs # NONE
    /\ tagArgs.tagUri.t = "str"
    /\ tagArgs.authority = NONE
    /\ tagArgs.date = NONE
    /\ tagArgs.specific = NONE
    /\ tagArgs.fragment = NONE

\* the tag-URI grammar: three parts between colons, the first 'tag' in any
\* case; two parts between commas in the second, the latter a date text;
\* at most one '#' in the third
DateTextOk(text) ==
    \/ strptime(text, "%Y-%m-%d").exc = "none"
    \/ strptime(text, "%Y-%m").exc = "none"
    \/ strptime(text, "%Y").exc = "none"

TagUriOk(text) ==
    LET parts == split(text, ":")
    IN /\ Len(parts) = 3
       /\ lower(parts[1]) = <<"t", "a", "g">>
       /\ Len(split(parts[2], ",")) = 2
       /\ DateTextOk(split(parts[2], ",")[2])
       /\ Len(split(parts[3], "#")) <= 2

\* C27: construction from a string accepts exactly the tag-URI grammar: a
\* Tag is made when the string follows it, and otherwise the construction
\* raises and makes no Tag.  The date of the Tag is that of the first of
\* YYYY-MM-DD, YYYY-MM, YYYY that the date text matches.
TagUriGrammar ==
    (FromUriAlone /\ tag # NONE) =>
        /\ (tag.exc = "none") = TagUriOk(tagArgs.tagUri.s)
        /\ tag.exc # "none" => TagFields(tag) = <<NONE, NONE, NONE, NONE>>
        /\ tag.exc = "none" =>
              tag.date = ConvertDate(split(split(tagArgs.tagUri.s, ":")[2], ",")[2]).date

\* C27's case has happened: the tag URI TAG:a,2019-4-28:x#f, with the scheme
\* in upper case, made a Tag dated 2019-4-28.
UpperCaseSchemeAccepted ==
    /\ tagArgs = TagCall(PyStr(<<"T", "A", "G", ":", "a", ",", "2", "0", "1", "9", "-", "4", "-", "2", "8", ":", "x", "#", "f">>), NONE, NONE, NONE, NONE)
    /\ tag.exc = "none"
    /\ tag.date = PyDate(2019, 4, 28)

\* C28: fragment parsing.  For a Tag made from a tag URI alone: with no '#'
\* in the third part, specific is that part and fragment is None; with one
\* '#', specific is the text before it and fragment the text after it.  And
\* str(tag) ends with '#' and the fragment exactly when the fragment is not
\* None.
FragmentParsing ==
    /\ (FromUriAlone /\ tag # NONE /\ tag.exc = "none") =>
          LET rest == split(tagArgs.tagUri.s, ":")[3]
              hashes == Len(split(rest, "#")) - 1
          IN /\ hashes = 0 => tag.specific = PyStr(rest) /\ tag.fragment = NONE
             /\ hashes = 1 =>
                   /\ tag.specific = PyStr(split(rest, "#")[1])
                   /\ tag.fragment = PyStr(split(rest, "#")[2])
    /\ tagStr # NONE =>
          LET head == <<"t", "a", "g", ":">> \o taggingEntityString(tag) \o <<":">>
                          \o tag.specific.s
          IN tagStr.s = IF tag.fragment = NONE THEN head
                        ELSE head \o <<"#">> \o tag.fragment.s

\* C28's case has happened: the tag URI tag:a,2019:x# made a Tag with the
\* empty fragment, and its str() ends with '#'.
EmptyFragmentKept ==
    /\ tagArgs = TagCall(PyStr(<<"t", "a", "g", ":", "a", ",", "2", "0", "1", "9", ":", "x", "#">>), NONE, NONE, NONE, NONE)
    /\ tag.exc = "none"
    /\ tag.fragment = PyStr(<<>>)
    /\ tagStr = PyStr(<<"t", "a", "g", ":", "a", ",", "2", "0", "1", "9", ":", "x", "#">>)

\* C29: makePackable performs its steps in a fixed order.  The calls it makes
\* are, in this order and each at most once: getStateId on the reader;
\* makeObject with the state id read and the hints; unpack, on the object
\* makeObject returned, with the same reader and hints.  When it returns, it
\* has made all three and returns that same object.
MakePackableOrder ==
    /\ Len(factoryCalls) <= 3
    /\ Len(factoryCalls) >= 1 =>
          /\ factoryCalls[1].method = "getStateId"
          /\ factoryCalls[1].self = "baseTypeReader"
    /\ Len(factoryCalls) >= 2 =>
          /\ factoryCalls[2].method = "makeObject"
          /\ factoryCalls[2].args = <<factoryCalls[1].ret, collaborators.hints>>
    /\ Len(factoryCalls) >= 3 =>
          /\ factoryCalls[3].method = "unpack"
          /\ factoryCalls[3].self = factoryCalls[2].ret
          /\ factoryCalls[3].args = <<"baseTypeReader", collaborators.hints>>
    /\ (outcome # NONE /\ outcome.exc = "none") =>
          /\ Len(factoryCalls) = 3
          /\ outcome.ret = factoryCalls[2].ret

\* C29's case has happened: makePackable, called with hints, has returned
\* the object that makeObject made and unpack filled.
PackableMade ==
    /\ pc = "done"
    /\ collaborators.hints = PyDict(<<>>)
    /\ Len(factoryCalls) = 3
    /\ outcome = Returned("object1")

(***************************************************************************)
(* Traversals by readWithCallbacks, from the first token to the return.    *)
(***************************************************************************)

\* the arguments readWithCallbacks is to pass for a token: the name of a
\* pair, the header of a packable, the id and the value of a value, and
\* nothing for the END and for the start of a list or a dictionary
ArgsFor(e) ==
    CASE e.id = "PAIR" -> <<e.val>>
      [] e.id = "PACKABLE" -> <<e.val>>
      [] e.id \in {END, "LIST", "DICTIONARY"} -> <<>>
      [] OTHER -> <<e.id, e.val>>

\* the k-th callback called returned a true value
ReturnedTrue(k) == ~dispatched[k].out.exc /\ Truthy(dispatched[k].out.ret)

\* C36: full traversal dispatch.  The j-th callback called is the one for
\* the j-th token of the stream, chosen by the token's id and called with
\* the arguments of that token (the pair's name, the packable's header, the
\* value's id and value); while every callback returns true the call neither
\* returns False nor raises, and when it has returned True every token of
\* the stream has had its one callback and each of them returned true.
FullTraversalDispatch ==
    /\ \A j \in 1..Len(dispatched) :
          /\ dispatched[j].callback = CallbackFor(reader[j])
          /\ dispatched[j].args = ArgsFor(reader[j])
    /\ (\A j \in 1..Len(dispatched) : ReturnedTrue(j))
          => returned \in {"running", "True"}
    /\ returned = "True"
          => /\ Len(dispatched) = Len(reader)
             /\ readerPos = Len(reader)
             /\ \A j \in 1..Len(dispatched) : ReturnedTrue(j)

\* C36's case has happened: a stream of a pair, a packable start and an END
\* has been traversed with every callback returning true, and the call has
\* returned True.
TraversedToTheEnd ==
    /\ Len(reader) = 3
    /\ reader[1].id = "PAIR"
    /\ reader[2].id = "PACKABLE"
    /\ reader[3].id = END
    /\ Len(dispatched) = 3
    /\ returned = "True"

\* C39: bounded consumption on abort.  When readWithCallbacks has returned
\* False, the tokens it has taken from the reader are exactly those up to
\* and including the one whose callback returned false: the reader stands
\* right behind that token, no callback before it returned false, and the
\* tokens behind it are still the reader's to give.
BoundedConsumptionOnAbort ==
    returned = "False"
        => /\ readerPos \in 1..Len(reader)
           /\ readerPos = Len(dispatched)
           /\ ReturnedFalse(readerPos)
           /\ \A j \in 1..(readerPos - 1) : ReturnedTrue(j)

\* C39's case has happened: the callback for the first of three tokens
\* returned false, the call has returned False and two tokens are left.
AbortedWithTokensLeft ==
    /\ Len(reader) = 3
    /\ returned = "False"
    /\ readerPos = 1

\* C37: the first call to next on a ChildReader returns the first element
\* given to the constructor and does not read the parent; only the calls
\* after it read the parent.  So the parent has given one element less than
\* the reader has yielded, the first element yielded is firstElem, and a call
\* raises nothing while that first element is still to come.
FirstElementComesFirst ==
    firstElem # NONE =>
        /\ yielded # <<>> => yielded[1] = firstElem /\ parentPos = Len(yielded) - 1
        /\ yielded = <<>> => parentPos = 0 /\ readerRaised = "none"

(***************************************************************************)
(* The validators of collections and the three classification functions.   *)
(***************************************************************************)

\* the members of a collection in the order of its iteration: the members of
\* a list or tuple, the values of a dictionary
MemberAt(val, i) == IF isDict(val) THEN val.items[i][2] ELSE val.items[i]

\* the i-th member of a collection is invalid: it is no base type, or (in a
\* dictionary) its key is no string
InvalidAt(val, i) ==
    \/ ~isBaseType(MemberAt(val, i))
    \/ isDict(val) /\ ~isString(val.items[i][1])

\* C38: validation short-circuits.  isBaseTypeList and isBaseTypeDict
\* examine the members in the order of iteration: called on a collection of
\* their kind with an invalid member (or a key that is no string), they
\* return False having examined the members up to the first invalid one and
\* none behind it; called on a valid collection, they return True having
\* examined every member.
ValidationShortCircuits ==
    (/\ examined # NONE
     /\ examined.fn = "isBaseTypeList" => isList(pyVal) \/ isTuple(pyVal)
     /\ examined.fn = "isBaseTypeDict" => isDict(pyVal))
        => LET n == Len(pyVal.items)
               invalid == {i \in 1..n : InvalidAt(pyVal, i)}
           IN IF invalid = {}
              THEN examined.ret = TRUE /\ examined.count = n
              ELSE /\ examined.ret = FALSE
                   /\ examined.count \in invalid
                   /\ \A i \in invalid : examined.count <= i

\* C38's case has happened: isBaseTypeList has returned False on a list
\* whose first member is invalid and whose second is valid, having examined
\* one member only.
StoppedAtFirstInvalid ==
    /\ examined # NONE
    /\ examined.fn = "isBaseTypeList"
    /\ isList(pyVal)
    /\ Len(pyVal.items) = 2
    /\ ~isBaseType(pyVal.items[1])
    /\ isBaseType(pyVal.items[2])
    /\ examined.ret = FALSE
    /\ examined.count = 1

\* C40: the three classification functions agree.  isBaseType(v) is true
\* exactly when getBaseTypeId(v) returns an id (and it raises TypeError
\* otherwise); checkBaseType of the id that getBaseTypeId returned and v is
\* true; and checkBaseType of an id that has no checker returns False and
\* raises nothing.
ClassifiersAgree ==
    /\ \A n \in 1..Len(ids) :
          /\ ids[n].exc \in {"none", "TypeError"}
          /\ \A m \in 1..Len(checks) :
                checks[m] = Returned(ids[n].exc = "none")
    /\ typeCheck # NONE =>
          /\ \A n \in 1..Len(ids) :
                (ids[n].exc = "none" /\ ids[n].ret = typeCheck.id)
                    => typeCheck.out = Returned(TRUE)
          /\ (\A i \in 1..Len(_baseTypeCheckersKeys) :
                 _baseTypeCheckersKeys[i] # typeCheck.id)
                    => typeCheck.out = Returned(FALSE)

\* C40's case has happened: on a dictionary, isBaseType has answered,
\* getBaseTypeId has returned an id and checkBaseType has been called with
\* that id.
CheckedWithItsOwnId ==
    /\ isDict(pyVal)
    /\ Len(checks) > 0
    /\ Len(ids) > 0
    /\ ids[1].exc = "none"
    /\ typeCheck # NONE
    /\ typeCheck.id = ids[1].ret

\* for C40 as well: checkBaseType has been called with an id that has no
\* checker
CheckedWithUnknownId ==
    /\ typeCheck # NONE
    /\ typeCheck.id = "URN"

(***************************************************************************)
(* Property sheets.                                                        *)
(***************************************************************************)

\* the methods of a sheet that change it
SheetMutators == {"mergeProperties", "clearSheet", "setProperty", "clearProperty"}

RECURSIVE NearestHeld(_, _, _)
NearestHeld(i, key, default) ==
    IF key \in DOMAIN sheets[i]._properties
    THEN sheets[i]._properties[key]
    ELSE IF sheets[i]._parent # NONE
    THEN NearestHeld(sheets[i]._parent.n, key, default)
    ELSE default

\* C34: getProperty chains upward.  It returns the sheet's own value for the
\* key, else the value of the nearest ancestor on the chain of parents that
\* holds the key, else the caller's default; a value of the sheet's own
\* overrides what the ancestors hold.
GetPropertyChainsUpward ==
    (sheetCall # NONE /\ sheetCall.op = "getProperty") =>
        /\ sheetCall.exc = "none"
        /\ sheetCall.ret = NearestHeld(sheetCall.self, sheetCall.args[1], sheetCall.args[2])

\* C35: a property sheet stores only non-default values.  After
\* setProperty(key, value, default) with a string key on a mutable sheet,
\* the call has raised nothing; if value equals default the sheet has no
\* entry under key, and otherwise it holds exactly value under key.
SetPropertyStoresNonDefault ==
    (/\ sheetCall # NONE
     /\ sheetCall.op = "setProperty"
     /\ ~sheets[sheetCall.self]._immutable
     /\ isString(sheetCall.args[1]))
        => LET key == sheetCall.args[1]
               properties == sheets[sheetCall.self]._properties
           IN /\ sheetCall.exc = "none"
              /\ IF sheetCall.args[2] = sheetCall.args[3]
                 THEN key \notin DOMAIN properties
                 ELSE key \in DOMAIN properties /\ properties[key] = sheetCall.args[2]

(***************************************************************************)
(* One writer, two callers.                                                *)
(***************************************************************************)

\* the two callers' sequences have ended, by a return or by an exception
CallersEnded == \A c \in 1..2 : callerPc[c] \in {"done", "failed"}

\* the two callers' call pairs came one after the other: no call of the one
\* stands between the calls of the other
Serialized ==
    \E c, d \in 1..2 :
        /\ c # d
        /\ \A i, j \in 1..Len(calls) :
              (calls[i].caller = d /\ calls[j].caller = c) => j < i

\* C32: the writer has no lock of its own.  When the two callers' call
\* pairs are serialized (one caller's writePairStart and value write, then
\* the other's), each call returns and each caller's name is stored in the
\* dictionary with that caller's own value.  (The other half of the claim,
\* that interleaved calls can pair a name with the other caller's value or
\* make a writePairStart fail with InvalidKeyError, speaks of states that
\* can be reached: see PairStartRejectedByOthersName.)
SerializedPairsStored ==
    (CallersEnded /\ Serialized) =>
        \A c \in 1..2 :
            /\ callerPc[c] = "done"
            /\ DictHas(_dict, callers[c].name, callers[c].value)

\* interleaved: a caller's writePairStart has failed with InvalidKeyError
\* because the other caller's name was pending
PairStartRejectedByOthersName ==
    /\ Len(calls) = 3
    /\ calls[2].op = "writePairStart" /\ calls[2].exc = "none"
    /\ calls[3].op = "writePairStart" /\ calls[3].exc = "InvalidKeyError"
    /\ calls[3].caller # calls[2].caller

====
